---- MODULE Spec2Model ----
(***************************************************************************)
(* Model of the record reconciliation engine of Excella (src/app.py):     *)
(* ExcelComparisonTool.process_data and its helpers clean_name and        *)
(* find_match_for_value, the column-selection handlers, and the           *)
(* whole-column preview / replace / undo facility.                        *)
(*                                                                         *)
(* A string is a sequence of one-character strings.  A missing cell       *)
(* (pandas NaN) is the one-token sequence NaN.  A table (DataFrame) is a  *)
(* record [cols, rows]: the ordered column names and the rows in index    *)
(* order (RangeIndex 0..n-1 is position 1..n), each row a function from   *)
(* column name to cell.                                                    *)
(***************************************************************************)
EXTENDS Integers, Sequences, FiniteSets, TLC

VARIABLES
    master_df,                   \* loaded reference DataFrame, or NoFrame
    secondary_df,                \* loaded target DataFrame, or NoFrame
    selected_reference_primary,  \* tk.StringVar
    selected_data_source,        \* tk.StringVar
    selected_target_columns,     \* list of column names
    selected_replace_columns,    \* list of column names
    fuzzy_matching,              \* tk.BooleanVar
    similarity_threshold,        \* tk.DoubleVar, in tenths (8 is 0.8)
    enable_multivalue,           \* tk.BooleanVar
    target_delimiter,            \* tk.StringVar
    preserve_structure,          \* tk.BooleanVar
    secondary_work,              \* the reconciled table; NoFrame while the attribute is absent
    undo_col_data,               \* self._undo_col_data: a Series (sequence of cells) or NoSeries
    undo_col_name,               \* self._undo_col_name: a column name or NoName
    stats,                       \* the statistics the last completed run logged
    dialog,                      \* what the last handler reported, until acknowledged
    run_completed,               \* history: some run has reached the end of process_data
    hist,                        \* history: where the last table operations stand in replace / run / undo
    before                       \* history: the reconciled table before the last replace

vars == << master_df, secondary_df, selected_reference_primary, selected_data_source,
           selected_target_columns, selected_replace_columns, fuzzy_matching,
           similarity_threshold, enable_multivalue, target_delimiter, preserve_structure,
           secondary_work, undo_col_data, undo_col_name, stats, dialog,
           run_completed, hist, before >>

(***************************************************************************)
(* Characters and strings.                                                 *)
(***************************************************************************)

\* A list and a dict as Python holds them once built: every element evaluated.
List(f) == f \o << >>
Dict(f) == f @@ << >>

\* The characters of the model, in code-point order.
CodeOrder == << "\t", " ", "!", ",", "-", "0", "1", "2", ";", "A", "B", "_",
                "a", "b", "c", "d", "|" >>

Whitespace == { "\t", " " }

UpperCase == << "A", "B" >>
LowerCase == << "a", "b" >>

\* \w of the re module: letters, digits and the underscore.
WordChars == { "0", "1", "2", "A", "B", "_", "a", "b", "c", "d" }

NaN == << "NaN" >>

Ord(c) == CHOOSE i \in 1..Len(CodeOrder) : CodeOrder[i] = c

ToLower(c) ==
    IF \E i \in 1..Len(UpperCase) : UpperCase[i] = c
    THEN LowerCase[CHOOSE i \in 1..Len(UpperCase) : UpperCase[i] = c]
    ELSE c

RECURSIVE StrLess(_, _)
\* x < y for Python strings: lexicographic by code point.
StrLess(x, y) ==
    IF y = << >> THEN FALSE
    ELSE IF x = << >> THEN TRUE
    ELSE IF Head(x) = Head(y) THEN StrLess(Tail(x), Tail(y))
    ELSE Ord(Head(x)) < Ord(Head(y))

RECURSIVE LStrip(_)
LStrip(s) == IF s # << >> /\ Head(s) \in Whitespace THEN LStrip(Tail(s)) ELSE s

RECURSIVE RStrip(_)
RStrip(s) ==
    IF s # << >> /\ s[Len(s)] \in Whitespace THEN RStrip(SubSeq(s, 1, Len(s) - 1)) ELSE s

\* str.strip()
Strip(s) == RStrip(LStrip(s))

RECURSIVE CollapseSpaces(_)
\* re.sub(r'\s+', ' ', s)
CollapseSpaces(s) ==
    IF s = << >> THEN << >>
    ELSE IF Head(s) \in Whitespace
         THEN << " " >> \o CollapseSpaces(LStrip(s))
         ELSE << Head(s) >> \o CollapseSpaces(Tail(s))

RECURSIVE LowerStr(_)
LowerStr(s) == IF s = << >> THEN << >> ELSE << ToLower(Head(s)) >> \o LowerStr(Tail(s))

RECURSIVE RemoveSpecial(_)
\* re.sub(r'[^\w\s\-]', '', s)
RemoveSpecial(s) ==
    IF s = << >> THEN << >>
    ELSE IF Head(s) \in WordChars \cup Whitespace \cup { "-" }
         THEN << Head(s) >> \o RemoveSpecial(Tail(s))
         ELSE RemoveSpecial(Tail(s))

\* ExcelComparisonTool.clean_name
clean_name(name) ==
    IF name = NaN THEN << >>
    ELSE RemoveSpecial(LowerStr(CollapseSpaces(Strip(name))))

RECURSIVE SplitOn(_, _)
\* str.split(delim) for a one-character delimiter: the parts, empty ones included.
SplitOn(s, delim) ==
    IF \A i \in 1..Len(s) : s[i] # delim THEN << s >>
    ELSE LET k == CHOOSE i \in 1..Len(s) :
                      s[i] = delim /\ \A j \in 1..(i - 1) : s[j] # delim
         IN  << SubSeq(s, 1, k - 1) >> \o SplitOn(SubSeq(s, k + 1, Len(s)), delim)

RECURSIVE JoinWith(_, _)
\* delim.join(parts)
JoinWith(parts, delim) ==
    IF parts = << >> THEN << >>
    ELSE IF Len(parts) = 1 THEN parts[1]
    ELSE parts[1] \o << delim >> \o JoinWith(Tail(parts), delim)

RECURSIVE StripNonEmpty(_)
\* [val.strip() for val in parts if val.strip()]
StripNonEmpty(parts) ==
    IF parts = << >> THEN << >>
    ELSE IF Strip(Head(parts)) = << >> THEN StripNonEmpty(Tail(parts))
         ELSE << Strip(Head(parts)) >> \o StripNonEmpty(Tail(parts))

(***************************************************************************)
(* difflib: SequenceMatcher.ratio and get_close_matches, as the run calls *)
(* them (no junk; autojunk needs 200 characters).  A ratio 2*M/T is the   *)
(* pair <<2*M, T>>.                                                        *)
(***************************************************************************)

RECURSIVE RunLen(_, _, _, _, _, _)
\* Length of the common run a[i..] = b[j..] inside a[..ahi), b[..bhi) (0-based).
RunLen(a, b, i, j, ahi, bhi) ==
    IF i < ahi /\ j < bhi /\ a[i + 1] = b[j + 1]
    THEN 1 + RunLen(a, b, i + 1, j + 1, ahi, bhi)
    ELSE 0

\* The longest block of len, a map from the start (i, j) of a block to its length:
\* the earliest in a, then in b; the empty block at (alo, blo) when there is none.
LongestBlock(len, alo, blo) ==
    IF \A p \in DOMAIN len : len[p] = 0 THEN << alo, blo, 0 >>
    ELSE LET first == CHOOSE p \in DOMAIN len :
                          \A q \in DOMAIN len :
                              \/ len[q] < len[p]
                              \/ len[q] = len[p] /\ p[1] < q[1]
                              \/ len[q] = len[p] /\ p[1] = q[1] /\ p[2] <= q[2]
         IN  << first[1], first[2], len[first] >>

\* SequenceMatcher.find_longest_match
find_longest_match(a, b, alo, ahi, blo, bhi) ==
    LongestBlock(Dict([p \in (alo..(ahi - 1)) \X (blo..(bhi - 1)) |->
                          RunLen(a, b, p[1], p[2], ahi, bhi)]),
                 alo, blo)

RECURSIVE MatchedChars(_, _, _, _, _, _)
RECURSIVE MatchedAround(_, _, _, _, _, _, _)
\* Sum of the sizes of SequenceMatcher.get_matching_blocks.
MatchedChars(a, b, alo, ahi, blo, bhi) ==
    MatchedAround(a, b, alo, ahi, blo, bhi, find_longest_match(a, b, alo, ahi, blo, bhi))

\* The block m, plus the blocks to its left and to its right.
MatchedAround(a, b, alo, ahi, blo, bhi, m) ==
    IF m[3] = 0 THEN 0
    ELSE m[3]
         + (IF alo < m[1] /\ blo < m[2]
            THEN MatchedChars(a, b, alo, m[1], blo, m[2]) ELSE 0)
         + (IF m[1] + m[3] < ahi /\ m[2] + m[3] < bhi
            THEN MatchedChars(a, b, m[1] + m[3], ahi, m[2] + m[3], bhi) ELSE 0)

\* SequenceMatcher(None, a, b).ratio()
ratio(a, b) ==
    IF Len(a) + Len(b) = 0 THEN << 1, 1 >>
    ELSE << 2 * MatchedChars(a, b, 0, Len(a), 0, Len(b)), Len(a) + Len(b) >>

\* Comparison of two ratios and of a ratio with a cutoff in tenths.
ConfLess(c, d) == c[1] * d[2] < d[1] * c[2]
ConfEq(c, d) == c[1] * d[2] = d[1] * c[2]
\* The comparison gone wrong: the slider read backwards, its highest position the
\* most permissive (a cutoff of 1.6 less the threshold).
AtLeastReversedCutoff(c, cutoff) == 10 * c[1] >= (16 - cutoff) * c[2]
AtLeastCutoff(c, cutoff) == 10 * c[1] >= cutoff * c[2]

\* The candidate of the largest (score, candidate) pair among those scoring at
\* least cutoff, as a list of at most one.
BestScoring(possibilities, score, cutoff) ==
    LET ok == { i \in 1..Len(possibilities) : AtLeastCutoff(score[i], cutoff) }
        Better(i, j) ==
            \/ ConfLess(score[j], score[i])
            \/ ConfEq(score[i], score[j]) /\ StrLess(possibilities[j], possibilities[i])
    IN  IF ok = {} THEN << >>
        ELSE << possibilities[CHOOSE i \in ok : \A j \in ok : ~Better(j, i)] >>

\* get_close_matches(word, possibilities, n=1, cutoff)
get_close_matches(word, possibilities, cutoff) ==
    BestScoring(possibilities,
                List([i \in 1..Len(possibilities) |-> ratio(possibilities[i], word)]),
                cutoff)

(***************************************************************************)
(* Tables, series and match results.                                       *)
(***************************************************************************)

NoFrame == [exists |-> FALSE, cols |-> << >>, rows |-> << >>]
Frame(cols, rows) == [exists |-> TRUE, cols |-> cols, rows |-> rows]

NoSeries == [none |-> TRUE, values |-> << >>]
Series(values) == [none |-> FALSE, values |-> values]
NoName == "<None>"

Range(seq) == { seq[i] : i \in 1..Len(seq) }
Columns(df) == Range(df.cols)

Blank == << >>

\* df[col] = values, one value per row: an existing column keeps its place, a new
\* one is appended.
SetColumn(df, col, values) ==
    Frame(IF col \in Columns(df) THEN df.cols ELSE Append(df.cols, col),
          List([i \in 1..Len(df.rows) |->
                   Dict([c \in Columns(df) \cup { col } |->
                            IF c = col THEN values[i] ELSE df.rows[i][c]])]))

\* df[col] = scalar
SetColumnScalar(df, col, val) == SetColumn(df, col, [i \in 1..Len(df.rows) |-> val])

\* df[col] = series: the values are aligned on the index, NaN where the series
\* has no entry for a row.
SetColumnSeries(df, col, series) ==
    SetColumn(df, col,
              [i \in 1..Len(df.rows) |->
                  IF i <= Len(series.values) THEN series.values[i] ELSE NaN])

\* df[col].copy()
ColumnOf(df, col) == Series(List([i \in 1..Len(df.rows) |-> df.rows[i][col]]))

RECURSIVE SeqWithout(_, _)
SeqWithout(seq, drop) ==
    IF seq = << >> THEN << >>
    ELSE IF Head(seq) \in drop THEN SeqWithout(Tail(seq), drop)
         ELSE << Head(seq) >> \o SeqWithout(Tail(seq), drop)

\* df.drop(columns=[col for col in drop if col in df.columns])
DropColumns(df, drop) ==
    Frame(SeqWithout(df.cols, drop),
          List([i \in 1..Len(df.rows) |-> Dict([c \in Columns(df) \ drop |-> df.rows[i][c]])]))

NoMatch == [type |-> "NONE", matched_name |-> Blank, confidence |-> << 0, 1 >>,
            column |-> "", data_value |-> Blank]

\* A string the code writes as a whole, kept as one token.
Token(t) == << t >>

\* The sentinel of an unmatched sub-value.
MatchUnfound == << "m", "a", "t", "c", "h", " ", "u", "n", "f", "o", "u", "n", "d" >>

\* round(confidence, 3), in thousandths (round half to even).
Round3(c) ==
    LET q == (1000 * c[1]) \div c[2]
        r == (1000 * c[1]) % c[2]
    IN  IF 2 * r > c[2] \/ (2 * r = c[2] /\ q % 2 = 1) THEN q + 1 ELSE q

ConfidenceCell(c) == Token(ToString(Round3(c)))

\* The clean_reference column of master_work.
CleanReference(master, reference_primary) ==
    List([i \in 1..Len(master.rows) |-> clean_name(master.rows[i][reference_primary])])

\* The lookup gone wrong: the last row that carries the key.
LastWithKey(keys, key) ==
    CHOOSE i \in 1..Len(keys) : keys[i] = key /\ \A j \in (i + 1)..Len(keys) : keys[j] # key

\* master_work[master_work['clean_reference'] == key].iloc[0]
FirstWithKey(keys, key) ==
    CHOOSE i \in 1..Len(keys) : keys[i] = key /\ \A j \in 1..(i - 1) : keys[j] # key

\* row.get(data_source, "")
DataValue(master, i, data_source) ==
    IF data_source \in Columns(master) THEN master.rows[i][data_source] ELSE Blank

(***************************************************************************)
(* Matching one value, one column, one row.  cfg is the configuration a   *)
(* run reads: [reference_primary, data_source, targets, replaces, fuzzy,  *)
(* threshold, multivalue, preserve].                                       *)
(***************************************************************************)

\* The FUZZY result for the close matches found, or NoMatch when there is none.
FuzzyMatch(close_matches, target_clean_name, keys, master, cfg, column) ==
    IF close_matches = << >> THEN NoMatch
    ELSE LET i == FirstWithKey(keys, close_matches[1])
         IN  [type |-> "FUZZY",
              matched_name |-> master.rows[i][cfg.reference_primary],
              confidence |-> ratio(target_clean_name, close_matches[1]),
              column |-> column,
              data_value |-> DataValue(master, i, cfg.data_source)]

\* The lookup gone wrong: the fuzzy search runs whenever it is enabled, and the exact
\* comparison only when it is not.
MatchCleanNameFuzzyFirst(target_clean_name, keys, master, cfg, column) ==
    IF target_clean_name = << >> THEN NoMatch
    ELSE IF cfg.fuzzy /\ keys # << >>
    THEN FuzzyMatch(get_close_matches(target_clean_name, keys, cfg.threshold),
                    target_clean_name, keys, master, cfg, column)
    ELSE IF \E i \in 1..Len(keys) : keys[i] = target_clean_name
    THEN LET i == FirstWithKey(keys, target_clean_name)
         IN  [type |-> "EXACT",
              matched_name |-> master.rows[i][cfg.reference_primary],
              confidence |-> << 1, 1 >>,
              column |-> column,
              data_value |-> DataValue(master, i, cfg.data_source)]
    ELSE NoMatch

\* The lookup gone wrong: an empty cleaned name is looked up like any other.
MatchCleanNameEmptyToo(target_clean_name, keys, master, cfg, column) ==
    IF \E i \in 1..Len(keys) : keys[i] = target_clean_name
    THEN LET i == FirstWithKey(keys, target_clean_name)
         IN  [type |-> "EXACT",
              matched_name |-> master.rows[i][cfg.reference_primary],
              confidence |-> << 1, 1 >>,
              column |-> column,
              data_value |-> DataValue(master, i, cfg.data_source)]
    ELSE IF cfg.fuzzy /\ keys # << >>
    THEN FuzzyMatch(get_close_matches(target_clean_name, keys, cfg.threshold),
                    target_clean_name, keys, master, cfg, column)
    ELSE NoMatch

\* The lookup gone wrong: the fuzzy search runs whether or not it is enabled.
MatchCleanNameIgnoresSwitch(target_clean_name, keys, master, cfg, column) ==
    IF target_clean_name = << >> THEN NoMatch
    ELSE IF \E i \in 1..Len(keys) : keys[i] = target_clean_name
    THEN LET i == FirstWithKey(keys, target_clean_name)
         IN  [type |-> "EXACT",
              matched_name |-> master.rows[i][cfg.reference_primary],
              confidence |-> << 1, 1 >>,
              column |-> column,
              data_value |-> DataValue(master, i, cfg.data_source)]
    ELSE IF keys # << >>
    THEN FuzzyMatch(get_close_matches(target_clean_name, keys, cfg.threshold),
                    target_clean_name, keys, master, cfg, column)
    ELSE NoMatch

\* The exact-then-fuzzy lookup of a cleaned name among the clean_reference keys.
\* process_data and find_match_for_value each carry this code; only the first
\* records the column.
MatchCleanName(target_clean_name, keys, master, cfg, column) ==
    IF target_clean_name = << >> THEN NoMatch
    ELSE IF \E i \in 1..Len(keys) : keys[i] = target_clean_name
    THEN LET i == FirstWithKey(keys, target_clean_name)
         IN  [type |-> "EXACT",
              matched_name |-> master.rows[i][cfg.reference_primary],
              confidence |-> << 1, 1 >>,
              column |-> column,
              data_value |-> DataValue(master, i, cfg.data_source)]
    ELSE IF cfg.fuzzy /\ keys # << >>
    THEN FuzzyMatch(get_close_matches(target_clean_name, keys, cfg.threshold),
                    target_clean_name, keys, master, cfg, column)
    ELSE NoMatch

\* ExcelComparisonTool.find_match_for_value (exact_only and fuzzy_only False), the
\* matcher of one sub-value.  The result has no column of its own.
find_match_for_value(target_value, master, cfg) ==
    MatchCleanName(clean_name(target_value), CleanReference(master, cfg.reference_primary),
                   master, cfg, "")

\* The single-value branch of process_data for one target column.
SingleValueMatch(target_value, target_col, master, cfg) ==
    MatchCleanName(clean_name(target_value), CleanReference(master, cfg.reference_primary),
                   master, cfg, target_col)

\* delimiters_to_check, in the order the run tries them.
delimiters_to_check == << ",", ";", "|" >>

\* The detection gone wrong: the delimiter of delimiters_to_check that occurs
\* earliest in the value, or "".
actual_delimiter_earliest(target_str) ==
    IF \E p \in 1..Len(target_str) : target_str[p] \in Range(delimiters_to_check)
    THEN target_str[CHOOSE p \in 1..Len(target_str) :
             /\ target_str[p] \in Range(delimiters_to_check)
             /\ \A q \in 1..(p - 1) : target_str[q] \notin Range(delimiters_to_check)]
    ELSE ""

\* The first delimiter of delimiters_to_check that occurs in the value, or "".
actual_delimiter(target_str) ==
    IF \E k \in 1..Len(delimiters_to_check) : delimiters_to_check[k] \in Range(target_str)
    THEN delimiters_to_check[CHOOSE k \in 1..Len(delimiters_to_check) :
             /\ delimiters_to_check[k] \in Range(target_str)
             /\ \A m \in 1..(k - 1) : delimiters_to_check[m] \notin Range(target_str)]
    ELSE ""

\* target_values of the multi-value branch; << >> when no delimiter occurs.
SubValues(target_str) ==
    IF actual_delimiter(target_str) = "" THEN << >>
    ELSE StripNonEmpty(SplitOn(target_str, actual_delimiter(target_str)))

\* What matches_found cannot hold: the TypeError that str.join raises for the
\* first item of matched_results that is not a string (the NaN of an empty data
\* cell), kept in the shape of a result so that the row loop can find it.
JoinTypeError(results, target_col) ==
    LET j == CHOOSE j \in 1..Len(results) :
                 /\ results[j] # NoMatch /\ results[j].data_value = NaN
                 /\ \A m \in 1..(j - 1) : results[m] = NoMatch \/ results[m].data_value # NaN
    IN  [type |-> "TypeError", matched_name |-> Blank, confidence |-> << 0, 1 >>,
         column |-> target_col,
         data_value |-> Token("sequence item " \o ToString(j - 1)
                              \o ": expected str instance, float found")]

\* An aggregate whose summary counts the exactly matched sub-values only.
JoinedMatchCountsExact(results, delimiter, target_col) ==
    LET matched_results == List([j \in 1..Len(results) |->
                                     IF results[j] # NoMatch THEN results[j].data_value
                                     ELSE MatchUnfound])
        has_exact == \E j \in 1..Len(results) : results[j].type = "EXACT"
        has_fuzzy == \E j \in 1..Len(results) : results[j].type = "FUZZY"
        match_count == Cardinality({ j \in 1..Len(results) : results[j].type = "EXACT" })
    IN  [type |-> IF has_exact THEN "EXACT" ELSE IF has_fuzzy THEN "FUZZY" ELSE "REVIEW",
         matched_name |-> << "Multi-value: ", ToString(match_count), "/",
                             ToString(Len(results)), " matched" >>,
         confidence |-> IF has_exact THEN << 1, 1 >>
                        ELSE IF has_fuzzy THEN << 4, 5 >> ELSE << 0, 1 >>,
         column |-> target_col,
         data_value |-> JoinWith(matched_results, delimiter)]

\* The aggregate of the results of the sub-values of one field, all of whose data
\* values are strings.
JoinedMatch(results, delimiter, target_col) ==
    LET matched_results == List([j \in 1..Len(results) |->
                                     IF results[j] # NoMatch THEN results[j].data_value
                                     ELSE MatchUnfound])
        has_exact == \E j \in 1..Len(results) : results[j].type = "EXACT"
        has_fuzzy == \E j \in 1..Len(results) : results[j].type = "FUZZY"
        match_count == Cardinality({ j \in 1..Len(results) :
                                         matched_results[j] # MatchUnfound })
    IN  [type |-> IF has_exact THEN "EXACT" ELSE IF has_fuzzy THEN "FUZZY" ELSE "REVIEW",
         matched_name |-> << "Multi-value: ", ToString(match_count), "/",
                             ToString(Len(results)), " matched" >>,
         confidence |-> IF has_exact THEN << 1, 1 >>
                        ELSE IF has_fuzzy THEN << 4, 5 >> ELSE << 0, 1 >>,
         column |-> target_col,
         data_value |-> JoinWith(matched_results, delimiter)]

\* The aggregate of the results of the sub-values of one field, or the TypeError
\* of joining them.
AggregateMatch(results, delimiter, target_col) ==
    IF \E j \in 1..Len(results) : results[j] # NoMatch /\ results[j].data_value = NaN
    THEN JoinTypeError(results, target_col)
    ELSE JoinedMatch(results, delimiter, target_col)

\* find_match_for_value for each of the sub-values, in order.
SubValueResults(target_values, master, cfg) ==
    List([j \in 1..Len(target_values) |-> find_match_for_value(target_values[j], master, cfg)])

\* The aggregate result of a field split into two or more sub-values.
MultiValueMatch(target_str, target_col, master, cfg) ==
    AggregateMatch(SubValueResults(SubValues(target_str), master, cfg),
                   actual_delimiter(target_str), target_col)

\* matches_found[i] of one row for the target column at position i (1-based), or
\* NoMatch when the column leaves no entry.
ColumnMatch(row, i, master, cfg) ==
    LET target_col == cfg.targets[i]
        target_value == row[target_col]
    IN  IF target_value = NaN \/ Strip(target_value) = << >> THEN NoMatch
        ELSE IF cfg.multivalue /\ Len(SubValues(target_value)) > 1
        THEN MultiValueMatch(target_value, target_col, master, cfg)
        ELSE SingleValueMatch(target_value, target_col, master, cfg)

\* matches_found of one row: one slot per configured target column.
MatchesFound(row, master, cfg) ==
    List([i \in 1..Len(cfg.targets) |-> ColumnMatch(row, i, master, cfg)])

Found(matches) == { i \in 1..Len(matches) : matches[i] # NoMatch }

\* A best-match choice that keeps the last entry of maximum confidence instead of
\* the first.
BestMatchLastMaximum(matches) ==
    matches[CHOOSE i \in Found(matches) :
                /\ \A j \in Found(matches) : ~ConfLess(matches[i].confidence, matches[j].confidence)
                /\ \A j \in Found(matches) :
                       j > i => ConfLess(matches[j].confidence, matches[i].confidence)]

\* max(matches_found.values(), key=lambda x: x['confidence']): the first entry,
\* in insertion order, of maximum confidence.
BestMatch(matches) ==
    matches[CHOOSE i \in Found(matches) :
                /\ \A j \in Found(matches) : ~ConfLess(matches[i].confidence, matches[j].confidence)
                /\ \A j \in Found(matches) :
                       j < i => ConfLess(matches[j].confidence, matches[i].confidence)]

TrackingColumns == << "Match_Type", "Matched_Reference_Name", "Confidence", "Matched_Column" >>

\* Replace writes for every position that has a replace column, matched or not.
ReplaceWritesUnmatched(matches, cfg, cols) ==
    { i \in 1..Len(matches) : i <= Len(cfg.replaces) /\ cfg.replaces[i] \in cols }

\* The positions whose match is written to a replace column of the table.
ReplaceWrites(matches, cfg, cols) ==
    { i \in Found(matches) : i <= Len(cfg.replaces) /\ cfg.replaces[i] \in cols }

\* One row after the replace-column writes.
WriteReplaceColumns(row, matches, cfg) ==
    LET writes == ReplaceWrites(matches, cfg, DOMAIN row)
    IN  Dict([c \in DOMAIN row |->
                 IF \E i \in writes : cfg.replaces[i] = c
                 THEN matches[CHOOSE i \in writes :
                                  /\ cfg.replaces[i] = c
                                  /\ \A j \in writes : cfg.replaces[j] = c => j <= i].data_value
                 ELSE row[c]])

\* Tracking writes that give a row without a match a confidence of 0.0.
WriteTrackingScoresReview(row, matches) ==
    IF Found(matches) # {}
    THEN LET best_match == BestMatch(matches)
         IN  [row EXCEPT !["Match_Type"] = Token(best_match.type),
                         !["Matched_Reference_Name"] = best_match.matched_name,
                         !["Confidence"] = ConfidenceCell(best_match.confidence),
                         !["Matched_Column"] = Token(best_match.column)]
    ELSE [row EXCEPT !["Match_Type"] = Token("REVIEW"),
                     !["Confidence"] = ConfidenceCell(<< 0, 1 >>)]

\* One row after the tracking writes.
WriteTracking(row, matches) ==
    IF Found(matches) # {}
    THEN LET best_match == BestMatch(matches)
         IN  [row EXCEPT !["Match_Type"] = Token(best_match.type),
                         !["Matched_Reference_Name"] = best_match.matched_name,
                         !["Confidence"] = ConfidenceCell(best_match.confidence),
                         !["Matched_Column"] = Token(best_match.column)]
    ELSE [row EXCEPT !["Match_Type"] = Token("REVIEW")]

\* The writes of the row loop for a row with the given matches_found.
WriteRow(row, matches, cfg) ==
    WriteTracking(WriteReplaceColumns(row, matches, cfg), matches)

\* Counting gone wrong: a row whose best match is neither EXACT nor FUZZY
\* increments no counter.
CounterOfMatchedOnly(matches) ==
    IF Found(matches) # {}
    THEN IF BestMatch(matches).type = "EXACT" THEN "exact"
         ELSE IF BestMatch(matches).type = "FUZZY" THEN "fuzzy" ELSE "none"
    ELSE "no"

\* The counter a row with the given matches_found increments: exact_matches,
\* fuzzy_matches or no_matches.
CounterOf(matches) ==
    IF Found(matches) # {}
    THEN IF BestMatch(matches).type = "EXACT" THEN "exact" ELSE "fuzzy"
    ELSE "no"

(***************************************************************************)
(* process_data.                                                           *)
(***************************************************************************)

NoStats == [exact |-> 0, fuzzy |-> 0, no |-> 0, total |-> 0, pct |-> << >>]

\* The first violated precondition's message, or "" when all hold.
ConfigError(master, secondary, cfg) ==
    IF ~master.exists \/ ~secondary.exists THEN "Please load both files first"
    ELSE IF cfg.reference_primary = "" THEN "Please select a reference primary match column"
    ELSE IF cfg.targets = << >> THEN "Please select at least one target column for comparison"
    ELSE IF cfg.preserve /\ cfg.replaces = << >>
    THEN "Please select columns to replace when preserve structure is enabled"
    ELSE IF cfg.data_source = "" THEN "Please select a data source column"
    ELSE ""

\* f'clean_target_{i}' for the target column at position i (1-based).
CleanTargetName(i) == "clean_target_" \o ToString(i - 1)

RECURSIVE AddCleanTargets(_, _, _)
\* The working copy with clean_target_0 .. clean_target_{n-1} added.
AddCleanTargets(df, targets, n) ==
    IF n = 0 THEN df
    ELSE LET prev == AddCleanTargets(df, targets, n - 1)
         IN  SetColumn(prev, CleanTargetName(n),
                       [i \in 1..Len(prev.rows) |-> clean_name(prev.rows[i][targets[n]])])

\* The target columns the working copy lacks: apply() on the first raises KeyError.
MissingTargets(secondary, cfg) ==
    { i \in 1..Len(cfg.targets) : cfg.targets[i] \notin Columns(secondary) }

\* Statistics that report a percentage whatever the total, dividing by at least 1.
LogStatisticsAlwaysPercent(counter, total) ==
    LET exact_matches == Cardinality({ i \in 1..Len(counter) : counter[i] = "exact" })
        fuzzy_matches == Cardinality({ i \in 1..Len(counter) : counter[i] = "fuzzy" })
        no_matches == Cardinality({ i \in 1..Len(counter) : counter[i] = "no" })
        divisor == IF total > 0 THEN total ELSE 1
        pct(n) == (2000 * n + divisor) \div (2 * divisor)
    IN  [exact |-> exact_matches, fuzzy |-> fuzzy_matches, no |-> no_matches,
         total |-> total,
         pct |-> << pct(exact_matches), pct(fuzzy_matches), pct(no_matches) >>]

\* The statistics the run logs, from the counter each row incremented: the counters,
\* len(secondary_work), and the percentages (in tenths of a percent) when there are
\* records.
LogStatistics(counter, total) ==
    LET exact_matches == Cardinality({ i \in 1..Len(counter) : counter[i] = "exact" })
        fuzzy_matches == Cardinality({ i \in 1..Len(counter) : counter[i] = "fuzzy" })
        no_matches == Cardinality({ i \in 1..Len(counter) : counter[i] = "no" })
        pct(n) == (2000 * n + total) \div (2 * total)
    IN  [exact |-> exact_matches, fuzzy |-> fuzzy_matches, no |-> no_matches,
         total |-> total,
         pct |-> IF total > 0
                 THEN << pct(exact_matches), pct(fuzzy_matches), pct(no_matches) >>
                 ELSE << >>]

\* matches_found of every row of the working copy, in index order, as the row loop
\* of the structure-preserving branch builds them.
RowMatches(rows, master, cfg) ==
    IF cfg.preserve
    THEN List([i \in 1..Len(rows) |-> MatchesFound(rows[i], master, cfg)])
    ELSE << >>

\* The counter each row of the row loop increments.
RowCounters(matches) == List([i \in 1..Len(matches) |-> CounterOf(matches[i])])

\* The working copy with the four tracking columns added, each "".
AddTracking(df) ==
    Frame(df.cols \o TrackingColumns,
          List([i \in 1..Len(df.rows) |->
                   Dict([c \in Columns(df) \cup Range(TrackingColumns) |->
                            IF c \in Range(TrackingColumns) THEN Blank ELSE df.rows[i][c]])]))

\* A row step that writes to the row at the loop's position instead of the row
\* it read.
ReconcileRowAtPosition(table, matches, idx, k, cfg) ==
    [table EXCEPT !.rows[k] = WriteRow(@, matches[idx], cfg)]

\* One pass of the row loop, the k-th, for the row of index idx: matches[idx] is
\* the matches_found built from the row as iterrows() read it, and every write
\* goes to self.secondary_work.at[idx, ...].
ReconcileRowAt(table, matches, idx, k, cfg) ==
    [table EXCEPT !.rows[idx] = WriteRow(@, matches[idx], cfg)]

RECURSIVE RowLoopFrom(_, _, _, _, _)
\* The table after the passes k, k + 1, ... of the row loop over the rows in order.
RowLoopFrom(table, matches, order, k, cfg) ==
    IF k > Len(order) THEN table
    ELSE RowLoopFrom(ReconcileRowAt(table, matches, order[k], k, cfg),
                     matches, order, k + 1, cfg)

\* A row loop after which the temporary columns are left in the table.
RowLoopKeepsTemporary(tracked, matches, order, cfg) ==
    RowLoopFrom(tracked, matches, order, 1, cfg)

\* The tracked working copy after the row loop has taken the rows in order and
\* the temporary columns are dropped.
RowLoopInOrder(tracked, matches, order, cfg) ==
    DropColumns(RowLoopFrom(tracked, matches, order, 1, cfg),
                { "clean_reference" } \cup { CleanTargetName(i) : i \in 1..Len(cfg.targets) })

\* The working copy after the tracking columns are added, every row is written
\* with its matches_found, in index order, and the temporary columns are dropped.
PreserveStructureRun(work, matches, cfg) ==
    RowLoopInOrder(AddTracking(work), matches, List([i \in 1..Len(work.rows) |-> i]), cfg)

\* The rows whose matches_found is never completed: a column of theirs raises.
Raising(matches) ==
    { r \in 1..Len(matches) : \E i \in 1..Len(matches[r]) : matches[r][i].type = "TypeError" }

\* The working copy when the row loop is left by the exception of row first:
\* the tracking columns added, the rows before it written, the temporary columns
\* still there.
AbortedRun(work, matches, cfg, first) ==
    RowLoopFrom(AddTracking(work), matches, List([i \in 1..(first - 1) |-> i]), 1, cfg)

\* The end of a run whose row loop raised at row first, in the column that holds
\* the TypeError.
Aborted(copy, matches, cfg, first, oldstats) ==
    [outcome |-> "TypeError",
     message |-> matches[first][CHOOSE i \in 1..Len(matches[first]) :
                                    /\ matches[first][i].type = "TypeError"
                                    /\ \A j \in 1..(i - 1) :
                                           matches[first][j].type # "TypeError"].data_value[1],
     work |-> AbortedRun(copy, matches, cfg, first),
     stats |-> oldstats]

\* The end of a run that raised nothing.
Completed(final, counter) ==
    [outcome |-> "complete", message |-> "", work |-> final,
     stats |-> LogStatistics(counter, Len(final.rows))]

\* process_data from the row loop on, for the working copy with its clean_target
\* columns and the matches_found of its rows.
RunRows(copy, matches, cfg, oldstats) ==
    IF Raising(matches) # {}
    THEN Aborted(copy, matches, cfg,
                 CHOOSE r \in Raising(matches) : \A q \in Raising(matches) : r <= q,
                 oldstats)
    ELSE Completed(IF cfg.preserve THEN PreserveStructureRun(copy, matches, cfg) ELSE copy,
                   RowCounters(matches))

\* process_data from the tracking columns on.
RunOnTargets(copy, master, cfg, oldstats) ==
    RunRows(copy, RowMatches(copy.rows, master, cfg), cfg, oldstats)

\* process_data from the working copies on: KeyError for a column the tables lack,
\* else the run to its end.
RunOnCopies(master, secondary, cfg, oldstats) ==
    IF cfg.reference_primary \notin Columns(master)
    THEN [outcome |-> "KeyError", message |-> cfg.reference_primary,
          work |-> secondary, stats |-> oldstats]
    ELSE IF MissingTargets(secondary, cfg) # {}
    THEN LET first == CHOOSE i \in MissingTargets(secondary, cfg) :
                          \A j \in MissingTargets(secondary, cfg) : i <= j
         IN  [outcome |-> "KeyError", message |-> cfg.targets[first],
              work |-> AddCleanTargets(secondary, cfg.targets, first - 1),
              stats |-> oldstats]
    ELSE RunOnTargets(AddCleanTargets(secondary, cfg.targets, Len(cfg.targets)), master, cfg,
                      oldstats)

\* A run that makes its working copy as soon as both files are loaded, before the
\* mapping is validated.
process_data_copy_first(master, secondary, cfg, work, oldstats) ==
    IF ConfigError(master, secondary, cfg) # ""
    THEN [outcome |-> "ValueError", message |-> ConfigError(master, secondary, cfg),
          work |-> IF master.exists /\ secondary.exists THEN secondary ELSE work,
          stats |-> oldstats]
    ELSE RunOnCopies(master, secondary, cfg, oldstats)

\* ExcelComparisonTool.process_data as a function of what it reads: the outcome
\* ("ValueError" before the working copy exists, "KeyError" or "TypeError" after it,
\* "complete"),
\* the message shown, self.secondary_work and the statistics afterwards.
process_data_result(master, secondary, cfg, work, oldstats) ==
    IF ConfigError(master, secondary, cfg) # ""
    THEN [outcome |-> "ValueError", message |-> ConfigError(master, secondary, cfg),
          work |-> work, stats |-> oldstats]
    ELSE RunOnCopies(master, secondary, cfg, oldstats)

(***************************************************************************)
(* The whole-column preview / replace / undo facility, each handler as a   *)
(* function of what it reads.                                              *)
(***************************************************************************)

\* head(10) of the preview.
PreviewRows == 10

FirstRows(seq, n) == SubSeq(seq, 1, IF Len(seq) < n THEN Len(seq) ELSE n)

\* What a handler reports: the handler, the title of its message box (or its
\* outcome), the message where the model needs it, the column and value it was
\* called with, and the rows a preview shows.
NoDialog == [op |-> "", title |-> "", message |-> "", col |-> "", val |-> Blank, rows |-> << >>]
Dialog(op, title, message, col, val, rows) ==
    [op |-> op, title |-> title, message |-> message, col |-> col, val |-> val, rows |-> rows]

\* A preview that writes the value into the table itself instead of a copy.
preview_result_in_place(work, col, val) ==
    IF ~work.exists
    THEN [work |-> work, title |-> "No Data", rows |-> << >>]
    ELSE IF col = ""
    THEN [work |-> work, title |-> "No Column Selected", rows |-> << >>]
    ELSE LET preview_df == SetColumnScalar(work, col, val)
         IN  [work |-> preview_df, title |-> "Preview Replacement",
              rows |-> FirstRows(ColumnOf(preview_df, col).values, PreviewRows)]

\* ExcelComparisonTool.preview_replace_column: the table afterwards and the rows shown.
preview_result(work, col, val) ==
    IF ~work.exists
    THEN [work |-> work, title |-> "No Data", rows |-> << >>]
    ELSE IF col = ""
    THEN [work |-> work, title |-> "No Column Selected", rows |-> << >>]
    ELSE LET preview_df == SetColumnScalar(work, col, val)
         IN  [work |-> work, title |-> "Preview Replacement",
              rows |-> FirstRows(ColumnOf(preview_df, col).values, PreviewRows)]

\* A replace that takes its snapshot after the column is overwritten.
replace_result_snapshot_after(work, col, val, data, name) ==
    IF ~work.exists
    THEN [work |-> work, data |-> data, name |-> name, title |-> "No Data"]
    ELSE IF col = ""
    THEN [work |-> work, data |-> data, name |-> name, title |-> "No Column Selected"]
    ELSE IF col \notin Columns(work)
    THEN [work |-> work, data |-> data, name |-> name, title |-> "KeyError"]
    ELSE [work |-> SetColumnScalar(work, col, val),
          data |-> ColumnOf(SetColumnScalar(work, col, val), col),
          name |-> col, title |-> "Column Replaced"]

\* A replace that overwrites only the rows a preview shows.
replace_result_previewed_rows(work, col, val, data, name) ==
    IF ~work.exists
    THEN [work |-> work, data |-> data, name |-> name, title |-> "No Data"]
    ELSE IF col = ""
    THEN [work |-> work, data |-> data, name |-> name, title |-> "No Column Selected"]
    ELSE IF col \notin Columns(work)
    THEN [work |-> work, data |-> data, name |-> name, title |-> "KeyError"]
    ELSE [work |-> SetColumn(work, col,
                             [i \in 1..Len(work.rows) |->
                                 IF i <= PreviewRows THEN val ELSE work.rows[i][col]]),
          data |-> ColumnOf(work, col), name |-> col, title |-> "Column Replaced"]

\* ExcelComparisonTool.replace_entire_column: the table and the snapshot afterwards.
\* A column the table lacks raises KeyError in the handler, which changes nothing.
replace_result(work, col, val, data, name) ==
    IF ~work.exists
    THEN [work |-> work, data |-> data, name |-> name, title |-> "No Data"]
    ELSE IF col = ""
    THEN [work |-> work, data |-> data, name |-> name, title |-> "No Column Selected"]
    ELSE IF col \notin Columns(work)
    THEN [work |-> work, data |-> data, name |-> name, title |-> "KeyError"]
    ELSE [work |-> SetColumnScalar(work, col, val),
          data |-> ColumnOf(work, col), name |-> col, title |-> "Column Replaced"]

\* An undo that restores the column but keeps the snapshot.
undo_result_keeps_snapshot(work, data, name) ==
    IF ~work.exists \/ data = NoSeries \/ name = NoName
    THEN [work |-> work, data |-> data, name |-> name, title |-> "Nothing to Undo"]
    ELSE [work |-> SetColumnSeries(work, name, data),
          data |-> data, name |-> name, title |-> "Undo Complete"]

\* An undo that does not look whether a snapshot exists.
undo_result_unguarded(work, data, name) ==
    IF ~work.exists
    THEN [work |-> work, data |-> data, name |-> name, title |-> "Nothing to Undo"]
    ELSE [work |-> SetColumnSeries(work, name, data),
          data |-> NoSeries, name |-> NoName, title |-> "Undo Complete"]

\* ExcelComparisonTool.undo_replace_column: the table and the snapshot afterwards.
undo_result(work, data, name) ==
    IF ~work.exists \/ data = NoSeries \/ name = NoName
    THEN [work |-> work, data |-> data, name |-> name, title |-> "Nothing to Undo"]
    ELSE [work |-> SetColumnSeries(work, name, data),
          data |-> NoSeries, name |-> NoName, title |-> "Undo Complete"]

(***************************************************************************)
(* The datasets the loader hands over and the inputs of the handlers.      *)
(***************************************************************************)

MaxRows == 2      \* rows of a generated target table
BigRows == 11     \* rows of the long target table (more than the preview shows)
MaxSel == 2       \* entries of a column-selection list

RefRow(name, id) == [Name |-> name, ID |-> id]

\* Reference tables: two keys; a duplicate key; no rows; a row whose key cleans to "".
RefPlain == Frame(<< "Name", "ID" >>,
                  << RefRow(<< "a", "b" >>, << "1" >>), RefRow(<< "c", "d" >>, << "2" >>) >>)
RefDuplicate == Frame(<< "Name", "ID" >>,
                      << RefRow(<< "a", "b" >>, << "1" >>), RefRow(<< "A", "b" >>, << "0" >>),
                         RefRow(<< "c", "d" >>, << "2" >>) >>)
\* A reference row whose data cell is empty.
RefMissingID == Frame(<< "Name", "ID" >>,
                      << RefRow(<< "a", "b" >>, NaN), RefRow(<< "c", "d" >>, << "2" >>) >>)
\* Two keys of which each scores 0.8 against the other.
RefSimilar == Frame(<< "Name", "ID" >>,
                    << RefRow(<< "a", "b" >>, << "1" >>), RefRow(<< "a", "b", "d" >>, << "2" >>) >>)
\* A key that scores 0.667 as the first sequence against "aba" and 0.333 as the
\* second.
RefAsymmetric == Frame(<< "Name", "ID" >>,
                       << RefRow(<< "b", "c", "a" >>, << "1" >>), RefRow(<< "c", "d" >>, << "2" >>) >>)
RefEmpty == Frame(<< "Name", "ID" >>, << >>)
RefBlankKey == Frame(<< "Name", "ID" >>,
                     << RefRow(<< "!" >>, << "0" >>), RefRow(<< "a", "b" >>, << "1" >>) >>)
\* The same reference data under another column name.
RefRenamed == Frame(<< "Person", "ID" >>,
                    << [Person |-> << "a", "b" >>, ID |-> << "1" >>] >>)

TargetRow(name, alias, id) == [Name |-> name, Alias |-> alias, EmpID |-> id]

TargetRowPool ==
    << TargetRow(<< "A", "b", " " >>, << "c", "d" >>, << "0" >>),
       TargetRow(<< "a", "b", "d" >>, << "a", "b" >>, << "1" >>),
       TargetRow(<< "d", ";", "d" >>, << >>, << "2" >>),
       TargetRow(<< "a", "b", ",", "d" >>, NaN, << "0" >>),
       TargetRow(<< "!" >>, << " " >>, << "1" >>) >>

TargetColumns == << "Name", "Alias", "EmpID" >>

RECURSIVE SeqsUpTo(_, _)
\* The sequences over S of length at most n.
SeqsUpTo(S, n) ==
    IF n = 0 THEN { << >> }
    ELSE LET shorter == SeqsUpTo(S, n - 1)
         IN  shorter \cup { Append(q, x) : q \in shorter, x \in S }

\* The target tables of at most MaxRows rows.
GeneratedTargets == { Frame(TargetColumns, rows) : rows \in SeqsUpTo(Range(TargetRowPool), MaxRows) }

\* The target table of n rows that cycles through the pool.
CycledTarget(n) ==
    Frame(TargetColumns,
          List([i \in 1..n |-> TargetRowPool[((i - 1) % Len(TargetRowPool)) + 1]]))

\* What load_files may load in the application model.
MasterFiles == { RefPlain, RefRenamed }
SecondaryFiles == { CycledTarget(BigRows) }

\* What the user may pick in the comboboxes and type in the entry.
PrimaryChoices == { "Name" }
DataChoices == { "ID" }
TargetChoices == { "Name" }
ReplaceChoices == { "EmpID" }
FacilityColumns == { "", "EmpID", "Alias" }
FacilityValues == { << "A" >> }

NoDups(seq) == \A i, j \in 1..Len(seq) : i # j => seq[i] # seq[j]

Config == [reference_primary |-> selected_reference_primary,
           data_source |-> selected_data_source,
           targets |-> selected_target_columns,
           replaces |-> selected_replace_columns,
           fuzzy |-> fuzzy_matching,
           threshold |-> similarity_threshold,
           multivalue |-> enable_multivalue,
           preserve |-> preserve_structure]

\* The history of the operations that touched the reconciled table, as far as the
\* replace / undo scenarios need it:
\*   "r"   the last one was a replace          "rr"  the last two were replaces
\*   "ru"  a replace, then its undo            "rru" two replaces, then one undo
\*   "rR"  a replace, then one or more runs    "rRu" a replace, runs, then an undo
\*   "rruu" two replaces, one undo, then an undo that found nothing to undo
\*   "rruU" two replaces, one undo, then an undo that restored something
\*   ""    anything else
\* op is "replace", "undo" (restored), "undo_nothing" or "run".
HistAfter(h, op) ==
    CASE op = "replace" -> IF h \in { "r", "rr" } THEN "rr" ELSE "r"
      [] op = "undo" -> IF h = "r" THEN "ru"
                        ELSE IF h = "rr" THEN "rru"
                        ELSE IF h = "rR" THEN "rRu"
                        ELSE IF h = "rru" THEN "rruU" ELSE ""
      [] op = "undo_nothing" -> IF h = "rru" THEN "rruu" ELSE ""
      [] op = "run" -> IF h \in { "r", "rr", "rR" } THEN "rR" ELSE ""
      [] OTHER -> ""

mappingVars == << selected_reference_primary, selected_data_source,
                  selected_target_columns, selected_replace_columns >>
optionVars == << fuzzy_matching, similarity_threshold, enable_multivalue, target_delimiter,
                 preserve_structure >>
fileVars == << master_df, secondary_df >>
workVars == << secondary_work, undo_col_data, undo_col_name, stats, dialog,
               run_completed, hist, before >>

(***************************************************************************)
(* The application: the state after construction and one action per        *)
(* handler.                                                                *)
(***************************************************************************)

Init ==
    /\ master_df = NoFrame
    /\ secondary_df = NoFrame
    /\ selected_reference_primary = ""
    /\ selected_data_source = ""
    /\ selected_target_columns = << >>
    /\ selected_replace_columns = << >>
    /\ fuzzy_matching = TRUE
    /\ similarity_threshold = 8
    /\ enable_multivalue = FALSE
    /\ target_delimiter = ","
    /\ preserve_structure = TRUE
    /\ secondary_work = NoFrame
    /\ undo_col_data = NoSeries
    /\ undo_col_name = NoName
    /\ stats = NoStats
    /\ dialog = NoDialog
    /\ run_completed = FALSE
    /\ hist = ""
    /\ before = NoFrame

Idle == dialog = NoDialog

load_files ==
    \E m \in MasterFiles, t \in SecondaryFiles :
        /\ Idle
        /\ master_df' = m
        /\ secondary_df' = t
        /\ UNCHANGED << mappingVars, optionVars, workVars >>

on_reference_primary_selected ==
    \E selected \in PrimaryChoices \cap Columns(master_df) :
        /\ Idle
        /\ selected_reference_primary' = selected
        /\ UNCHANGED << selected_data_source, selected_target_columns,
                        selected_replace_columns, optionVars, fileVars, workVars >>

on_data_source_selected ==
    \E selected \in DataChoices \cap Columns(master_df) :
        /\ Idle
        /\ selected_data_source' = selected
        /\ UNCHANGED << selected_reference_primary, selected_target_columns,
                        selected_replace_columns, optionVars, fileVars, workVars >>

\* self.selected_target_columns after on_target_primary_selected finds selected
\* in the target primary combobox.
on_target_primary_selected_result(columns, selected) ==
    IF selected # "" /\ selected \notin Range(columns)
    THEN << selected >> \o columns
    ELSE columns

\* on_target_primary_selected for the combobox value selected; a call that finds
\* the column in the list already leaves the list as it is.
target_primary_selected(selected) ==
    /\ Idle
    /\ Len(on_target_primary_selected_result(selected_target_columns, selected)) <= MaxSel
    /\ selected_target_columns' =
           on_target_primary_selected_result(selected_target_columns, selected)
    /\ UNCHANGED << selected_reference_primary, selected_data_source,
                    selected_replace_columns, optionVars, fileVars, workVars >>

on_target_primary_selected ==
    \E selected \in TargetChoices \cap Columns(secondary_df) : target_primary_selected(selected)

\* add_target_column for the combobox value selected.
target_column_added(selected) ==
    /\ Idle
    /\ selected \notin Range(selected_target_columns)
    /\ Len(selected_target_columns) < MaxSel
    /\ selected_target_columns' = Append(selected_target_columns, selected)
    /\ UNCHANGED << selected_reference_primary, selected_data_source,
                    selected_replace_columns, optionVars, fileVars, workVars >>

add_target_column ==
    \E selected \in TargetChoices \cap Columns(secondary_df) : target_column_added(selected)

\* add_replace_column for the combobox value selected.
replace_column_added(selected) ==
    /\ Idle
    /\ selected \notin Range(selected_replace_columns)
    /\ Len(selected_replace_columns) < MaxSel
    /\ selected_replace_columns' = Append(selected_replace_columns, selected)
    /\ UNCHANGED << selected_reference_primary, selected_data_source,
                    selected_target_columns, optionVars, fileVars, workVars >>

add_replace_column ==
    \E selected \in ReplaceChoices \cap Columns(secondary_df) : replace_column_added(selected)

\* list.pop(index) for a 1-based position.
Pop(seq, index) == SubSeq(seq, 1, index - 1) \o SubSeq(seq, index + 1, Len(seq))

remove_target_from_listbox ==
    \E index \in 1..Len(selected_target_columns) :
        /\ Idle
        /\ selected_target_columns' = Pop(selected_target_columns, index)
        /\ UNCHANGED << selected_reference_primary, selected_data_source,
                        selected_replace_columns, optionVars, fileVars, workVars >>

remove_replace_from_listbox ==
    \E index \in 1..Len(selected_replace_columns) :
        /\ Idle
        /\ selected_replace_columns' = Pop(selected_replace_columns, index)
        /\ UNCHANGED << selected_reference_primary, selected_data_source,
                        selected_target_columns, optionVars, fileVars, workVars >>

clear_all_selections ==
    /\ Idle
    /\ selected_reference_primary' = ""
    /\ selected_data_source' = ""
    /\ selected_target_columns' = << >>
    /\ selected_replace_columns' = << >>
    /\ UNCHANGED << optionVars, fileVars, workVars >>

\* The "Preserve original file structure" checkbutton.
set_preserve_structure ==
    /\ Idle
    /\ preserve_structure' = ~preserve_structure
    /\ UNCHANGED << fuzzy_matching, similarity_threshold, enable_multivalue, target_delimiter,
                    mappingVars, fileVars, workVars >>

\* The delimiters of the Comma, Semicolon, Pipe and Space buttons.
common_delims == << ",", ";", "|", " " >>

\* One of the delimiter buttons, which toggle_multivalue_options enables while
\* multi-value processing is on.
set_target_delimiter ==
    /\ Idle
    /\ enable_multivalue
    /\ \E d \in Range(common_delims) : target_delimiter' = d
    /\ UNCHANGED << fuzzy_matching, similarity_threshold, enable_multivalue, preserve_structure,
                    mappingVars, fileVars, workVars >>

process_data ==
    \E r \in { process_data_result(master_df, secondary_df, Config, secondary_work, stats) } :
        /\ Idle
        /\ secondary_work' = r.work
        /\ stats' = r.stats
        /\ dialog' = Dialog("process_data",
                            IF r.outcome = "complete" THEN "complete" ELSE "Processing Error",
                            r.message, "", Blank, << >>)
        /\ run_completed' = (run_completed \/ r.outcome = "complete")
        /\ hist' = IF r.outcome = "ValueError" THEN hist ELSE HistAfter(hist, "run")
        /\ before' = IF r.outcome = "ValueError" \/ HistAfter(hist, "run") # "" THEN before
                     ELSE NoFrame
        /\ UNCHANGED << undo_col_data, undo_col_name, mappingVars, optionVars, fileVars >>

preview_replace_column ==
    \E col \in FacilityColumns, val \in FacilityValues :
        LET r == preview_result(secondary_work, col, val)
        IN  /\ Idle
            /\ secondary_work' = r.work
            /\ dialog' = Dialog("preview", r.title, "", col, val, r.rows)
            /\ UNCHANGED << undo_col_data, undo_col_name, stats, run_completed, hist, before,
                            mappingVars, optionVars, fileVars >>

replace_entire_column ==
    \E col \in FacilityColumns, val \in FacilityValues :
        LET r == replace_result(secondary_work, col, val, undo_col_data, undo_col_name)
        IN  /\ Idle
            /\ secondary_work' = r.work
            /\ undo_col_data' = r.data
            /\ undo_col_name' = r.name
            /\ dialog' = Dialog("replace", r.title, "", col, val, << >>)
            /\ hist' = IF r.title = "Column Replaced" THEN HistAfter(hist, "replace") ELSE hist
            /\ before' = IF r.title = "Column Replaced" THEN secondary_work ELSE before
            /\ UNCHANGED << stats, run_completed, mappingVars, optionVars, fileVars >>

undo_replace_column ==
    LET r == undo_result(secondary_work, undo_col_data, undo_col_name)
        h == HistAfter(hist, IF r.title = "Undo Complete" THEN "undo" ELSE "undo_nothing")
    IN  /\ Idle
        /\ secondary_work' = r.work
        /\ undo_col_data' = r.data
        /\ undo_col_name' = r.name
        /\ dialog' = Dialog("undo", r.title, "", "", Blank, << >>)
        /\ hist' = h
        /\ before' = IF h = "" THEN NoFrame ELSE before
        /\ UNCHANGED << stats, run_completed, mappingVars, optionVars, fileVars >>

\* The user acknowledges the message box (or reads the log) of the last handler.
acknowledge ==
    /\ ~Idle
    /\ dialog' = NoDialog
    /\ UNCHANGED << secondary_work, undo_col_data, undo_col_name, stats, run_completed,
                    hist, before, mappingVars, optionVars, fileVars >>

Next ==
    \/ load_files
    \/ on_reference_primary_selected
    \/ on_data_source_selected
    \/ on_target_primary_selected
    \/ add_target_column
    \/ add_replace_column
    \/ remove_target_from_listbox
    \/ remove_replace_from_listbox
    \/ clear_all_selections
    \/ set_preserve_structure
    \/ process_data
    \/ preview_replace_column
    \/ replace_entire_column
    \/ undo_replace_column
    \/ acknowledge

Spec == Init /\ [][Next]_vars

(***************************************************************************)
(* The reconciliation run on its own: the application with both files      *)
(* loaded and a complete mapping selected, then "Process & Match Data".    *)
(***************************************************************************)

RunMasters == { RefPlain, RefDuplicate, RefEmpty, RefBlankKey }
RunTargetChoices == { "Name", "Alias" }
RunReplaceChoices == { "EmpID", "Alias" }
RunThresholds == { 6, 8, 10 }

\* The non-empty selection lists the handlers can build from a set of choices.
SelectionLists(choices) ==
    { q \in SeqsUpTo(choices, MaxSel) : q # << >> /\ NoDups(q) }

InitRun ==
    /\ master_df \in RunMasters
    /\ secondary_df \in GeneratedTargets
    /\ selected_reference_primary = "Name"
    /\ selected_data_source = "ID"
    /\ selected_target_columns \in SelectionLists(RunTargetChoices)
    /\ selected_replace_columns \in SelectionLists(RunReplaceChoices)
    /\ fuzzy_matching \in BOOLEAN
    /\ similarity_threshold \in (IF fuzzy_matching THEN RunThresholds ELSE { 8 })
    /\ enable_multivalue \in BOOLEAN
    /\ target_delimiter = ","
    /\ preserve_structure = TRUE
    /\ secondary_work = NoFrame
    /\ undo_col_data = NoSeries
    /\ undo_col_name = NoName
    /\ stats = NoStats
    /\ dialog = NoDialog
    /\ run_completed = FALSE
    /\ hist = ""
    /\ before = NoFrame

NextRun == process_data

SpecRun == InitRun /\ [][NextRun]_vars

(***************************************************************************)
(* Properties of the whole-column facility and of the run's preconditions, *)
(* checked under Spec.                                                     *)
(***************************************************************************)

RowsOf(df) == 1..Len(df.rows)

\* C1: a replace of column c immediately followed by an undo leaves the table as it
\* was before the replace: column c holds in every row the value it held, and every
\* other column is unchanged.  before is the table the last replace found.
UndoRestoresColumn ==
    hist \in { "ru", "rru" } => secondary_work = before

\* C1 happens: an undo has just restored a column whose rows held different values.
UndoRestoresColumnWitness ==
    /\ hist = "ru"
    /\ dialog.op = "undo"
    /\ dialog.title = "Undo Complete"
    /\ secondary_work.exists
    /\ \E i, j \in RowsOf(secondary_work) :
           secondary_work.rows[i]["EmpID"] # secondary_work.rows[j]["EmpID"]

\* C2: undo is single-level.  The snapshot is one (column, values) pair or absent;
\* after two replaces with no undo between them one undo brings back the table the
\* second replace found and consumes the snapshot, and a further undo restores
\* nothing and reports "Nothing to Undo".
SingleLevelUndo ==
    /\ (undo_col_data = NoSeries) <=> (undo_col_name = NoName)
    /\ hist = "rru" => secondary_work = before /\ undo_col_data = NoSeries
    /\ hist # "rruU"
    /\ hist = "rruu" =>
           /\ secondary_work = before
           /\ undo_col_data = NoSeries
           /\ dialog.op = "undo" => dialog.title = "Nothing to Undo"

\* C2 happens: two replaces, an undo and a second undo that found nothing, and the
\* first replace's value is still in its column.
SingleLevelUndoWitness ==
    /\ hist = "rruu"
    /\ dialog.op = "undo"
    /\ dialog.title = "Nothing to Undo"
    /\ \E c \in FacilityColumns \ { "" } :
           \A i \in RowsOf(secondary_work) : secondary_work.rows[i][c] \in FacilityValues

\* C3: an undo called while no snapshot exists reports "Nothing to Undo" and leaves
\* the table and the absent snapshot as they are.
UndoWithoutSnapshot ==
    [][(undo_replace_column /\ (undo_col_data = NoSeries \/ undo_col_name = NoName))
       => /\ dialog'.title = "Nothing to Undo"
          /\ UNCHANGED << secondary_work, undo_col_data, undo_col_name >>]_vars

\* C3 happens: an undo on a reconciled table found no snapshot.
UndoWithoutSnapshotWitness ==
    /\ dialog.op = "undo"
    /\ dialog.title = "Nothing to Undo"
    /\ secondary_work.exists
    /\ run_completed
    /\ undo_col_data = NoSeries

\* C4: a successful replace of column c by v leaves as snapshot the values column c
\* held, row by row, and a table with the same columns and rows in which column c
\* reads v in every row and every other cell is unchanged.
ReplaceCapturesThenOverwrites ==
    [][(replace_entire_column /\ dialog'.title = "Column Replaced")
       => /\ undo_col_name' = dialog'.col
          /\ ~undo_col_data'.none
          /\ Len(undo_col_data'.values) = Len(secondary_work.rows)
          /\ \A i \in RowsOf(secondary_work) :
                 undo_col_data'.values[i] = secondary_work.rows[i][dialog'.col]
          /\ secondary_work'.cols = secondary_work.cols
          /\ Len(secondary_work'.rows) = Len(secondary_work.rows)
          /\ \A i \in RowsOf(secondary_work) :
                 /\ DOMAIN secondary_work'.rows[i] = DOMAIN secondary_work.rows[i]
                 /\ \A c \in DOMAIN secondary_work.rows[i] :
                        secondary_work'.rows[i][c] =
                            IF c = dialog'.col THEN dialog'.val
                            ELSE secondary_work.rows[i][c]]_vars

\* C4 happens: a replace has just overwritten a column of a table longer than a
\* preview, and the snapshot holds different values.
ReplaceCapturesThenOverwritesWitness ==
    /\ dialog.op = "replace"
    /\ dialog.title = "Column Replaced"
    /\ Len(secondary_work.rows) > PreviewRows
    /\ \A i \in RowsOf(secondary_work) : secondary_work.rows[i][dialog.col] = dialog.val
    /\ \E i, j \in 1..Len(undo_col_data.values) :
           undo_col_data.values[i] # undo_col_data.values[j]

\* C5: a preview, whatever it reports, leaves the table and the snapshot as they
\* are; when it shows rows, they are the first min(10, number of rows) rows of the
\* column, each reading the value.
PreviewIsPure ==
    [][preview_replace_column
       => /\ UNCHANGED << secondary_work, undo_col_data, undo_col_name >>
          /\ dialog'.title = "Preview Replacement" =>
                 /\ Len(dialog'.rows) = IF Len(secondary_work.rows) < 10
                                        THEN Len(secondary_work.rows) ELSE 10
                 /\ \A i \in 1..Len(dialog'.rows) : dialog'.rows[i] = dialog'.val]_vars

\* C5 happens: a preview of a table of more than ten rows shows ten rows, none of
\* which reads the value in the table itself.
PreviewIsPureWitness ==
    /\ dialog.op = "preview"
    /\ dialog.title = "Preview Replacement"
    /\ Len(dialog.rows) = 10
    /\ Len(secondary_work.rows) > 10
    /\ \A i \in RowsOf(secondary_work) : secondary_work.rows[i][dialog.col] # dialog.val

PreconditionViolated ==
    \/ selected_reference_primary = ""
    \/ selected_target_columns = << >>
    \/ preserve_structure /\ selected_replace_columns = << >>
    \/ selected_data_source = ""

ConfigurationErrors ==
    { "Please load both files first",
      "Please select a reference primary match column",
      "Please select at least one target column for comparison",
      "Please select columns to replace when preserve structure is enabled",
      "Please select a data source column" }

\* C7: a run started while a precondition is violated reports a configuration error
\* and leaves the reconciled table, the statistics and the snapshot as they were.
ConfigErrorLeavesStateAlone ==
    [][(process_data /\ PreconditionViolated)
       => /\ dialog'.title = "Processing Error"
          /\ dialog'.message \in ConfigurationErrors
          /\ run_completed' = run_completed
          /\ UNCHANGED << secondary_work, stats, undo_col_data, undo_col_name >>]_vars

\* C7 happens: the last precondition checked fails while a reconciled table, its
\* statistics and a snapshot exist.
ConfigErrorLeavesStateAloneWitness ==
    /\ dialog.op = "process_data"
    /\ dialog.message = "Please select a data source column"
    /\ secondary_work.exists
    /\ stats # NoStats
    /\ undo_col_data # NoSeries

\* C28: an undo snapshot is applied only to the reconciled table it was taken
\* from: an undo that follows a replace and then a new completed run does not
\* write the snapshot into the table of the new run.
UndoStaysWithItsTable ==
    [][(undo_replace_column
            /\ hist = "rR"
            /\ secondary_work.cols = secondary_df.cols \o TrackingColumns)
       => secondary_work' = secondary_work]_vars

(***************************************************************************)
(* Properties of a completed run, checked under SpecRun.                   *)
(***************************************************************************)

\* matches_found of row r of the loaded target table: one MatchResult, or NoMatch,
\* per configured target column.
ResultsOf(r) == MatchesFound(secondary_df.rows[r], master_df, Config)

Produced(results) == { i \in 1..Len(results) : results[i] # NoMatch }

\* Row r's tracking fields are those of result, the one of target column b.
TrackingIs(r, result, b) ==
    /\ secondary_work.rows[r]["Match_Type"] = Token(result.type)
    /\ secondary_work.rows[r]["Matched_Reference_Name"] = result.matched_name
    /\ secondary_work.rows[r]["Confidence"] = ConfidenceCell(result.confidence)
    /\ secondary_work.rows[r]["Matched_Column"] = Token(selected_target_columns[b])

\* Row r carries the tracking fields of a result of maximum confidence, the one of
\* the earliest target column among them.
TracksBest(r, results) ==
    \E b \in Produced(results) :
        /\ \A j \in Produced(results) :
               ~ConfLess(results[b].confidence, results[j].confidence)
        /\ \A j \in Produced(results) :
               j < b => ConfLess(results[j].confidence, results[b].confidence)
        /\ TrackingIs(r, results[b], b)

\* C8: after a completed run, every row with at least one MatchResult carries the
\* tracking fields (the confidence rounded to three decimals) of a result of maximum
\* confidence, the one of the earliest configured column among them.
TrackingReflectsBestMatch ==
    dialog.title = "complete" =>
        \A r \in RowsOf(secondary_df) :
            \A results \in { ResultsOf(r) } :
                Produced(results) # {} => TracksBest(r, results)

\* Two columns tie on confidence with different reference names and the first is
\* the one recorded for row r.
TieKeepsFirst(r, results) ==
    /\ Produced(results) = { 1, 2 }
    /\ ConfEq(results[1].confidence, results[2].confidence)
    /\ results[1].matched_name # results[2].matched_name
    /\ TrackingIs(r, results[1], 1)

\* The second column's result is strictly better and is the one recorded for row r.
BetterSecondWins(r, results) ==
    /\ Produced(results) = { 1, 2 }
    /\ ConfLess(results[1].confidence, results[2].confidence)
    /\ TrackingIs(r, results[2], 2)

\* C8 happens: in one row two columns tie and the first is recorded, and in another
\* the second column's result is strictly better and is recorded.
TrackingReflectsBestMatchWitness ==
    /\ dialog.title = "complete"
    /\ Len(selected_target_columns) = 2
    /\ \E r \in RowsOf(secondary_df) : TieKeepsFirst(r, ResultsOf(r))
    /\ \E r \in RowsOf(secondary_df) : BetterSecondWins(r, ResultsOf(r))

\* The positions that write column c: a target column that produced a MatchResult
\* and has c as the replace column at its position.
Writers(results, c) ==
    { i \in Produced(results) :
          i <= Len(selected_replace_columns) /\ selected_replace_columns[i] = c }

\* Column c of row r holds the data value of its writer's MatchResult, or the value
\* it was loaded with when it has no writer.
CellIsPositional(r, c, results) ==
    secondary_work.rows[r][c] =
        IF Writers(results, c) = {} THEN secondary_df.rows[r][c]
        ELSE results[CHOOSE i \in Writers(results, c) : TRUE].data_value

\* C9: after a run, a cell of a column of the loaded table holds the data value of
\* target column i's MatchResult if the row produced one and the column is the
\* replace column at position i, and otherwise the value it was loaded with: replace
\* columns beyond the target columns and target columns without a replace column at
\* their position write nothing.
ReplaceWritesArePositional ==
    dialog.title = "complete" =>
        \A r \in RowsOf(secondary_df) :
            \A results \in { ResultsOf(r) } :
                \A c \in Columns(secondary_df) : CellIsPositional(r, c, results)

\* Both target columns of row r produce a result, with different data values; the
\* first has overwritten the one replace column and the second has written nothing.
FirstWritesSecondDoesNot(r, results) ==
    /\ Produced(results) = { 1, 2 }
    /\ results[1].data_value # results[2].data_value
    /\ secondary_work.rows[r][selected_replace_columns[1]] = results[1].data_value
    /\ secondary_df.rows[r][selected_replace_columns[1]] # results[1].data_value

\* C9 happens: two target columns and one replace column, and a row in which both
\* target columns produce a result.
ReplaceWritesArePositionalWitness ==
    /\ dialog.title = "complete"
    /\ Len(selected_target_columns) = 2
    /\ Len(selected_replace_columns) = 1
    /\ \E r \in RowsOf(secondary_df) : FirstWritesSecondDoesNot(r, ResultsOf(r))

RowsOfType(type) ==
    { r \in RowsOf(secondary_work) : secondary_work.rows[r]["Match_Type"] = Token(type) }

\* C10: after a completed structure-preserving run the counters are the numbers of
\* rows of Match_Type EXACT, FUZZY and REVIEW.
StatisticsAgreeWithMatchType ==
    (dialog.title = "complete" /\ preserve_structure) =>
        /\ stats.exact = Cardinality(RowsOfType("EXACT"))
        /\ stats.fuzzy = Cardinality(RowsOfType("FUZZY"))
        /\ stats.no = Cardinality(RowsOfType("REVIEW"))

(***************************************************************************)
(* clean_name on its own: a run without structure preservation over a      *)
(* one-row target table keeps the clean_target_0 column, which holds       *)
(* clean_name of the row's target cell.                                    *)
(***************************************************************************)

MaxLen == 3       \* characters of a raw target value

\* The characters of a raw value: letters of both cases, a digit, two kinds of
\* whitespace, the hyphen, a punctuation character and the underscore.
RawAlphabet == { "a", "A", "0", " ", "\t", "-", "!", "_" }

\* The raw cells: the strings of at most MaxLen characters and the missing cell.
RawValues == SeqsUpTo(RawAlphabet, MaxLen) \cup { NaN }

InitClean ==
    /\ master_df = RefPlain
    /\ secondary_df \in { Frame(TargetColumns, << TargetRow(raw, Blank, << "0" >>) >>) :
                              raw \in RawValues }
    /\ selected_reference_primary = "Name"
    /\ selected_data_source = "ID"
    /\ selected_target_columns = << "Name" >>
    /\ selected_replace_columns = << >>
    /\ fuzzy_matching = TRUE
    /\ similarity_threshold = 8
    /\ enable_multivalue = FALSE
    /\ target_delimiter = ","
    /\ preserve_structure = FALSE
    /\ secondary_work = NoFrame
    /\ undo_col_data = NoSeries
    /\ undo_col_name = NoName
    /\ stats = NoStats
    /\ dialog = NoDialog
    /\ run_completed = FALSE
    /\ hist = ""
    /\ before = NoFrame

NextClean == process_data

SpecClean == InitClean /\ [][NextClean]_vars

\* The key the run computed for the one target cell.
CleanedKey == secondary_work.rows[1][CleanTargetName(1)]

\* C11: clean_name is idempotent: cleaning the key it returned gives that key.
CleanNameIdempotent ==
    dialog.title = "complete" => clean_name(CleanedKey) = CleanedKey

CanonicalLetters == { "a", "b", "c", "d" }
CanonicalDigits == { "0", "1", "2" }

\* C12: the key clean_name returns is canonical: no whitespace at either end, no two
\* whitespace characters in a row, only lower-case letters, digits, whitespace and
\* hyphens; a missing or empty cell gives the empty key.
CleanNameCanonical ==
    dialog.title = "complete" =>
        /\ CleanedKey # << >> =>
               CleanedKey[1] \notin Whitespace /\ CleanedKey[Len(CleanedKey)] \notin Whitespace
        /\ \A i \in 1..(Len(CleanedKey) - 1) :
               ~(CleanedKey[i] \in Whitespace /\ CleanedKey[i + 1] \in Whitespace)
        /\ \A i \in 1..Len(CleanedKey) :
               CleanedKey[i] \in CanonicalLetters \cup CanonicalDigits \cup Whitespace \cup { "-" }
        /\ secondary_df.rows[1]["Name"] \in { NaN, << >> } => CleanedKey = << >>

(***************************************************************************)
(* Runs for the claims about the matcher and about multi-valued fields:    *)
(* every generated target table against the reference tables with a        *)
(* duplicated key, an empty key, an empty data cell and two similar keys,  *)
(* one replace column.                                                     *)
(***************************************************************************)

MatchMasters == { RefPlain, RefDuplicate, RefBlankKey, RefMissingID, RefSimilar }
MatchTargetLists == { << "Name" >>, << "Name", "Alias" >> }

InitMatch ==
    /\ master_df \in MatchMasters
    /\ secondary_df \in GeneratedTargets
    /\ selected_reference_primary = "Name"
    /\ selected_data_source = "ID"
    /\ selected_target_columns \in MatchTargetLists
    /\ selected_replace_columns = << "EmpID" >>
    /\ fuzzy_matching \in BOOLEAN
    /\ similarity_threshold \in (IF fuzzy_matching THEN RunThresholds ELSE { 8 })
    /\ enable_multivalue \in BOOLEAN
    /\ target_delimiter = ","
    /\ preserve_structure = TRUE
    /\ secondary_work = NoFrame
    /\ undo_col_data = NoSeries
    /\ undo_col_name = NoName
    /\ stats = NoStats
    /\ dialog = NoDialog
    /\ run_completed = FALSE
    /\ hist = ""
    /\ before = NoFrame

NextMatch == process_data

SpecMatch == InitMatch /\ [][NextMatch]_vars

(***************************************************************************)
(* Claims about the match of one value, checked on the runs of SpecMatch.  *)
(***************************************************************************)

\* The reference rows that are the earliest of their normalized key.
EarliestRows(master) ==
    { k \in RowsOf(master) :
          \A j \in 1..(k - 1) : clean_name(master.rows[j]["Name"]) #
                                     clean_name(master.rows[k]["Name"]) }

\* The result of a single value names the earliest reference row of a key, and an
\* EXACT one the earliest row of the key of the value itself.
FromEarliestRow(result, target_value) ==
    \E k \in EarliestRows(master_df) :
        /\ result.matched_name = master_df.rows[k]["Name"]
        /\ result.data_value = master_df.rows[k]["ID"]
        /\ result.type = "EXACT" =>
               clean_name(master_df.rows[k]["Name"]) = clean_name(target_value)

\* Each piece of a joined data value is the sentinel or the data value of the
\* earliest reference row of a key.
PiecesFromEarliestRows(result, delimiter) ==
    \A pieces \in { SplitOn(result.data_value, delimiter) } :
        \A j \in 1..Len(pieces) :
            \/ pieces[j] = MatchUnfound
            \/ \E k \in EarliestRows(master_df) : pieces[j] = master_df.rows[k]["ID"]

\* The field of row r in target column i is one the run treats as multi-valued.
IsMultiValued(r, i) ==
    /\ enable_multivalue
    /\ secondary_df.rows[r][selected_target_columns[i]] # NaN
    /\ Len(SubValues(secondary_df.rows[r][selected_target_columns[i]])) > 1

\* C13: when reference rows share a normalized key, every match on that key (exact
\* or fuzzy, of a single value or of a sub-value of a multi-valued field) carries
\* the matched name and the data value of the earliest of those rows, and so does
\* the matched name the run records for the row.
EarliestDuplicateWins ==
    dialog.title = "complete" =>
        \A r \in RowsOf(secondary_df) :
            \A results \in { ResultsOf(r) } :
                /\ \A i \in Produced(results) :
                       IF IsMultiValued(r, i)
                       THEN PiecesFromEarliestRows(
                                results[i],
                                actual_delimiter(secondary_df.rows[r][selected_target_columns[i]]))
                       ELSE FromEarliestRow(results[i],
                                            secondary_df.rows[r][selected_target_columns[i]])
                /\ (\E i \in Produced(results) : ~IsMultiValued(r, i) /\ \A j \in Produced(results) : ~IsMultiValued(r, j))
                       => \E k \in EarliestRows(master_df) :
                              secondary_work.rows[r]["Matched_Reference_Name"] =
                                  master_df.rows[k]["Name"]

\* A run over the reference table with the duplicated key "ab" in which one field
\* matched that key exactly, one fuzzily and one as a sub-value.
EarliestDuplicateWinsWitness ==
    /\ dialog.title = "complete"
    /\ master_df = RefDuplicate
    /\ \E r \in RowsOf(secondary_df) : \E i \in 1..Len(selected_target_columns) :
           /\ ~IsMultiValued(r, i)
           /\ ResultsOf(r)[i].type = "EXACT"
           /\ ResultsOf(r)[i].data_value = << "1" >>
    /\ \E r \in RowsOf(secondary_df) : \E i \in 1..Len(selected_target_columns) :
           /\ ~IsMultiValued(r, i)
           /\ ResultsOf(r)[i].type = "FUZZY"
           /\ ResultsOf(r)[i].matched_name = << "a", "b" >>
    /\ \E r \in RowsOf(secondary_df) : \E i \in 1..Len(selected_target_columns) :
           /\ IsMultiValued(r, i)
           /\ ResultsOf(r)[i].data_value = << "1", "," >> \o MatchUnfound

\* The reference rows whose normalized key is key.
RowsWithKey(master, key) ==
    { k \in RowsOf(master) : clean_name(master.rows[k]["Name"]) = key }

\* result is the EXACT match, of confidence 1.0, of reference row k.
ExactMatchOf(result, k) ==
    /\ result.type = "EXACT"
    /\ result.confidence = << 1, 1 >>
    /\ result.matched_name = master_df.rows[k]["Name"]
    /\ result.data_value = master_df.rows[k]["ID"]

\* The field of row r in target column i is a single value whose key exactly one
\* reference row carries.
HasUniqueKey(r, i) ==
    /\ ~IsMultiValued(r, i)
    /\ secondary_df.rows[r][selected_target_columns[i]] # NaN
    /\ Cardinality(RowsWithKey(master_df,
                               clean_name(secondary_df.rows[r][selected_target_columns[i]]))) = 1

\* The configurations that differ from the one of the run in the fuzzy setting and
\* the threshold only.
FuzzyVariants ==
    { [Config EXCEPT !.fuzzy = f, !.threshold = t] : f \in BOOLEAN, t \in RunThresholds }

\* Every value whose normalized key exactly one reference row carries (the empty
\* key included when empty_too holds) is matched to that row with type EXACT and
\* confidence 1.0 under every fuzzy setting and threshold, as a single value and as
\* a sub-value; a row whose only result it is records EXACT and that row's name.
UniqueKeyMatch(empty_too) ==
    dialog.title = "complete" =>
        \A r \in RowsOf(secondary_df) :
            \A results \in { ResultsOf(r) } :
                \A i \in 1..Len(selected_target_columns) :
                    \A value \in { secondary_df.rows[r][selected_target_columns[i]] } :
                        /\ (HasUniqueKey(r, i) /\ (empty_too \/ clean_name(value) # << >>)) =>
                               \A k \in RowsWithKey(master_df, clean_name(value)) :
                                   /\ ExactMatchOf(results[i], k)
                                   /\ \A cfg \in FuzzyVariants :
                                          ColumnMatch(secondary_df.rows[r], i, master_df, cfg)
                                              = results[i]
                                   /\ Produced(results) = { i } =>
                                          /\ secondary_work.rows[r]["Match_Type"] = Token("EXACT")
                                          /\ secondary_work.rows[r]["Matched_Reference_Name"]
                                                 = master_df.rows[k]["Name"]
                                          /\ secondary_work.rows[r]["Confidence"]
                                                 = ConfidenceCell(<< 1, 1 >>)
                        /\ IsMultiValued(r, i) =>
                               \A subs \in { SubValues(value) } :
                                   \A j \in 1..Len(subs) :
                                       \A k \in RowsWithKey(master_df, clean_name(subs[j])) :
                                           (/\ Cardinality(RowsWithKey(master_df,
                                                                       clean_name(subs[j]))) = 1
                                            /\ (empty_too \/ clean_name(subs[j]) # << >>))
                                               => \A cfg \in FuzzyVariants :
                                                      ExactMatchOf(
                                                          find_match_for_value(subs[j], master_df, cfg), k)

\* C14, as amended: a value whose non-empty normalized key exactly one reference
\* row carries is matched to that row with type EXACT and confidence 1.0, whatever
\* the fuzzy setting, the threshold, the row and the run.
UniqueKeyMatchesExactly == UniqueKeyMatch(FALSE)

\* C14, as stated: the same for every key, the empty one included.
AnyUniqueKeyMatchesExactly == UniqueKeyMatch(TRUE)

\* A run with fuzzy matching on in which a single value and a sub-value each had
\* a key that exactly one reference row carries.
UniqueKeyMatchesExactlyWitness ==
    /\ dialog.title = "complete"
    /\ fuzzy_matching
    /\ \E r \in RowsOf(secondary_df) : \E i \in 1..Len(selected_target_columns) :
           /\ HasUniqueKey(r, i)
           /\ Produced(ResultsOf(r)) = { i }
           /\ secondary_work.rows[r]["Match_Type"] = Token("EXACT")
    /\ \E r \in RowsOf(secondary_df) : \E i \in 1..Len(selected_target_columns) :
           /\ IsMultiValued(r, i)
           /\ \E j \in 1..Len(SubValues(secondary_df.rows[r][selected_target_columns[i]])) :
                  Cardinality(RowsWithKey(master_df, clean_name(
                      SubValues(secondary_df.rows[r][selected_target_columns[i]])[j]))) = 1

\* The run that differs from the one made in the threshold only.
RunAt(threshold) ==
    process_data_result(master_df, secondary_df, [Config EXCEPT !.threshold = threshold],
                        secondary_work, stats)

\* The rows of Match_Type FUZZY of a reconciled table.
FuzzyRows(work) == { r \in RowsOf(work) : work.rows[r]["Match_Type"] = Token("FUZZY") }

\* C15: for the same tables and configuration, the rows of Match_Type FUZZY after
\* a completed run under a higher threshold are among those after a completed run
\* under a lower one: the rows the run left FUZZY are FUZZY under every lower
\* threshold, and the rows FUZZY under a higher threshold are among them.
FuzzyRowsShrinkWithThreshold ==
    dialog.title = "complete" =>
        \A t \in RunThresholds \ { similarity_threshold } :
            \A run \in { RunAt(t) } :
                run.outcome = "complete" =>
                    \A rows \in { FuzzyRows(run.work) } :
                        /\ t <= similarity_threshold => RowsOfType("FUZZY") \subseteq rows
                        /\ t >= similarity_threshold => rows \subseteq RowsOfType("FUZZY")

\* A run at the lowest threshold that left a row FUZZY which the middle threshold
\* would not, and the highest would leave fewer still.
FuzzyRowsShrinkWithThresholdWitness ==
    /\ dialog.title = "complete"
    /\ similarity_threshold = 6
    /\ RowsOfType("FUZZY") # {}
    /\ RunAt(8).outcome = "complete" /\ RunAt(10).outcome = "complete"
    /\ FuzzyRows(RunAt(8).work) # RowsOfType("FUZZY")
    /\ FuzzyRows(RunAt(10).work) # FuzzyRows(RunAt(8).work)

(***************************************************************************)
(* Claims about multi-valued fields, checked on the runs of SpecMatch.     *)
(***************************************************************************)

\* The result of each sub-value as the joined value should show it: the data
\* value of its match, or the sentinel.
ExpectedPieces(subs) ==
    List([j \in 1..Len(subs) |->
             IF find_match_for_value(subs[j], master_df, Config) = NoMatch THEN MatchUnfound
             ELSE find_match_for_value(subs[j], master_df, Config).data_value])

\* In every run that ended with one of the given titles, the replace column of
\* each multi-valued field holds the results of its sub-values, in their order,
\* joined with the delimiter detected in the field.
MultiValueJoined(titles) ==
    (dialog.op = "process_data" /\ dialog.title \in titles) =>
        \A r \in RowsOf(secondary_df) :
            \A i \in 1..Len(selected_target_columns) :
                (IsMultiValued(r, i) /\ i <= Len(selected_replace_columns)) =>
                    \A value \in { secondary_df.rows[r][selected_target_columns[i]] } :
                        secondary_work.rows[r][selected_replace_columns[i]]
                            = JoinWith(ExpectedPieces(SubValues(value)), actual_delimiter(value))

\* C16: after a run, the replace column of every multi-valued field of n >= 2
\* sub-values holds the n results (data value or 'match unfound') in the order of
\* the sub-values, joined with the detected delimiter.
MultiValueJoinPreserved == MultiValueJoined({ "complete", "Processing Error" })

\* The orders in which n rows can be taken.
Orders(n) == { q \in [1..n -> 1..n] : \A i, j \in 1..n : q[i] = q[j] => i = j }

\* The statistics of a run whose row loop takes the rows in order.
StatisticsInOrder(matches, order) ==
    LogStatistics(List([k \in 1..Len(order) |-> CounterOf(matches[order[k]])]), Len(matches))

\* C17: rows are independent: after a completed structure-preserving run, taking
\* the target rows in any order, each pass using the row as it was read and
\* writing the row of that index, gives the table and the statistics of the run.
RowOrderIsImmaterial ==
    (dialog.title = "complete" /\ preserve_structure) =>
        \A tracked \in { AddTracking(AddCleanTargets(secondary_df, selected_target_columns,
                                                     Len(selected_target_columns))) } :
            \A matches \in { RowMatches(tracked.rows, master_df, Config) } :
                \A order \in Orders(Len(secondary_df.rows)) :
                    /\ RowLoopInOrder(tracked, matches, order, Config) = secondary_work
                    /\ StatisticsInOrder(matches, order) = stats

\* A completed run over two rows that it reconciled differently, one of them
\* written to.
RowOrderIsImmaterialWitness ==
    /\ dialog.title = "complete"
    /\ Len(secondary_df.rows) = 2
    /\ secondary_work.rows[1]["Match_Type"] # secondary_work.rows[2]["Match_Type"]
    /\ secondary_work.rows[1]["Matched_Reference_Name"]
           # secondary_work.rows[2]["Matched_Reference_Name"]
    /\ \E c \in Range(selected_replace_columns) :
           secondary_work.rows[2][c] # secondary_df.rows[2][c]

\* C18: a run over a target table without rows completes; it reports 0 records,
\* 0 exact, 0 fuzzy and 0 unmatched, computes no percentage, and leaves a
\* reconciled table without rows.
EmptyTableRunCompletes ==
    (dialog.op = "process_data" /\ secondary_df.rows = << >>) =>
        /\ dialog.title = "complete"
        /\ run_completed
        /\ stats.total = 0
        /\ stats.exact = 0 /\ stats.fuzzy = 0 /\ stats.no = 0
        /\ stats.pct = << >>
        /\ secondary_work.exists /\ secondary_work.rows = << >>

\* A run over a table without rows has ended.
EmptyTableRunCompletesWitness ==
    /\ dialog.op = "process_data"
    /\ secondary_df.rows = << >>
    /\ master_df.rows # << >>
    /\ stats.total = 0 /\ stats.pct = << >>

\* The types of the matches of the sub-values, "NONE" for an unmatched one.
SubValueTypes(subs) ==
    List([j \in 1..Len(subs) |-> find_match_for_value(subs[j], master_df, Config).type])

\* The aggregate type and confidence (in thousandths) for the given sub-value
\* types: EXACT and 1.0 if one is EXACT, else FUZZY and 0.8 if one is FUZZY, else
\* REVIEW and 0.0.
AggregateOf(types) ==
    IF "EXACT" \in Range(types) THEN << "EXACT", 1000 >>
    ELSE IF "FUZZY" \in Range(types) THEN << "FUZZY", 800 >>
    ELSE << "REVIEW", 0 >>

\* The summary 'Multi-value: k/n matched' for the given sub-value types.
SummaryOf(types) ==
    << "Multi-value: ", ToString(Cardinality({ j \in 1..Len(types) : types[j] # "NONE" })),
       "/", ToString(Len(types)), " matched" >>

ReferenceKeys == { clean_name(master_df.rows[k]["Name"]) : k \in RowsOf(master_df) }

\* The values of row r, over its target columns, that the run looks up: the
\* sub-values of its multi-valued fields and its other fields whole.
LookedUp(r) ==
    UNION { IF secondary_df.rows[r][selected_target_columns[i]] = NaN THEN {}
            ELSE IF Strip(secondary_df.rows[r][selected_target_columns[i]]) = << >> THEN {}
            ELSE IF IsMultiValued(r, i)
            THEN Range(SubValues(secondary_df.rows[r][selected_target_columns[i]]))
            ELSE { secondary_df.rows[r][selected_target_columns[i]] } :
            i \in 1..Len(selected_target_columns) }

\* Some value of row r has a non-empty key that a reference key equals.
HasExactKey(r) ==
    \E value \in LookedUp(r) :
        clean_name(value) # << >> /\ clean_name(value) \in ReferenceKeys

\* C23: the fuzzy step runs only without an exact hit and with fuzzy matching
\* enabled.  After a completed run with fuzzy matching off no field, sub-value or
\* row has type FUZZY; and a value whose key equals a reference key is matched
\* EXACT with confidence 1.0, and so is its row, whatever the other reference
\* keys score.
FuzzyOnlyAfterExact ==
    dialog.title = "complete" =>
        \A r \in RowsOf(secondary_df) :
            /\ ~fuzzy_matching =>
                   /\ secondary_work.rows[r]["Match_Type"] # Token("FUZZY")
                   /\ \A i \in 1..Len(selected_target_columns) :
                          ResultsOf(r)[i].type # "FUZZY"
                   /\ \A value \in LookedUp(r) :
                          find_match_for_value(value, master_df, Config).type # "FUZZY"
            /\ \A value \in LookedUp(r) :
                   (clean_name(value) # << >> /\ clean_name(value) \in ReferenceKeys) =>
                       /\ find_match_for_value(value, master_df, Config).type = "EXACT"
                       /\ find_match_for_value(value, master_df, Config).confidence = << 1, 1 >>
            /\ HasExactKey(r) =>
                   /\ secondary_work.rows[r]["Match_Type"] = Token("EXACT")
                   /\ secondary_work.rows[r]["Confidence"] = ConfidenceCell(<< 1, 1 >>)

\* C23 happens: fuzzy matching is on, the key "ab" of a row equals the first
\* reference key while the second, "abd", scores 0.8 against it, at or above the
\* threshold, and the row is EXACT with the first reference row's name.
FuzzyOnlyAfterExactWitness ==
    /\ dialog.title = "complete"
    /\ fuzzy_matching
    /\ similarity_threshold \in { 6, 8 }
    /\ master_df = RefSimilar
    /\ selected_target_columns = << "Name" >>
    /\ AtLeastCutoff(ratio(<< "a", "b", "d" >>, << "a", "b" >>), similarity_threshold)
    /\ \E r \in RowsOf(secondary_df) :
           /\ clean_name(secondary_df.rows[r]["Name"]) = << "a", "b" >>
           /\ secondary_work.rows[r]["Match_Type"] = Token("EXACT")
           /\ secondary_work.rows[r]["Matched_Reference_Name"] = << "a", "b" >>

(***************************************************************************)
(* Claims about the rows of a completed run, checked on the runs of        *)
(* SpecMatch.                                                              *)
(***************************************************************************)

\* C24: after a completed run, a row none of whose target columns produced a
\* MatchResult has Match_Type REVIEW, its other three tracking fields blank, and
\* every replace column as it was loaded.
UnmatchedRowIsReview ==
    dialog.title = "complete" =>
        \A r \in RowsOf(secondary_df) :
            Produced(ResultsOf(r)) = {} =>
                /\ secondary_work.rows[r]["Match_Type"] = Token("REVIEW")
                /\ secondary_work.rows[r]["Matched_Reference_Name"] = Blank
                /\ secondary_work.rows[r]["Confidence"] = Blank
                /\ secondary_work.rows[r]["Matched_Column"] = Blank
                /\ \A i \in 1..Len(selected_replace_columns) :
                       secondary_work.rows[r][selected_replace_columns[i]]
                           = secondary_df.rows[r][selected_replace_columns[i]]

\* C24 happens: of two rows of a completed run over two target columns, one has
\* a match, and the other, whose cells hold a name no reference key is close to
\* and nothing, has none and is left for review with its replace column as loaded.
UnmatchedRowIsReviewWitness ==
    /\ dialog.title = "complete"
    /\ Len(selected_target_columns) = 2
    /\ \E r \in RowsOf(secondary_df) : Produced(ResultsOf(r)) # {}
    /\ \E r \in RowsOf(secondary_df) :
           /\ Produced(ResultsOf(r)) = {}
           /\ clean_name(secondary_df.rows[r]["Name"]) # << >>
           /\ secondary_work.rows[r]["Match_Type"] = Token("REVIEW")
           /\ secondary_work.rows[r]["Confidence"] = Blank
           /\ secondary_work.rows[r]["EmpID"] = secondary_df.rows[r]["EmpID"]

\* C25: once the configuration preconditions hold, a run processes every target
\* row and completes: whatever the matching outcomes, it ends without an error,
\* every row has a Match_Type, and the statistics count every row.
ValidRunAlwaysCompletes ==
    (dialog.op = "process_data"
         /\ ConfigError(master_df, secondary_df, Config) = ""
         /\ MissingTargets(secondary_df, Config) = {}) =>
        /\ dialog.title = "complete"
        /\ \A r \in RowsOf(secondary_work) :
               secondary_work.rows[r]["Match_Type"]
                   \in { Token("EXACT"), Token("FUZZY"), Token("REVIEW") }
        /\ stats.total = Len(secondary_df.rows)
        /\ stats.exact + stats.fuzzy + stats.no = Len(secondary_df.rows)

\* The replace columns a run may write: those at the position of a target column.
MappedReplaceColumns ==
    { selected_replace_columns[i] :
          i \in 1..(IF Len(selected_replace_columns) < Len(selected_target_columns)
                    THEN Len(selected_replace_columns) ELSE Len(selected_target_columns)) }

\* The table after is the table loaded with the four tracking columns appended:
\* the same rows in the same order, and every other column but the mapped
\* replace columns with the values loaded.
OnlyReplaceAndTrackingDiffer(loaded, after) ==
    /\ after.cols = loaded.cols \o TrackingColumns
    /\ Len(after.rows) = Len(loaded.rows)
    /\ \A r \in RowsOf(loaded) :
           \A c \in Columns(loaded) \ (MappedReplaceColumns \cup Range(TrackingColumns)) :
               after.rows[r][c] = loaded.rows[r][c]

\* C27: a run that completes leaves the loaded reference and target datasets as
\* they were, and its reconciled table differs from the loaded target dataset in
\* nothing but the mapped replace columns and the four tracking fields: same
\* rows, same order, same values in every other column, no other column added.
RunTouchesOnlyReplaceAndTracking ==
    [][(dialog'.op = "process_data" /\ dialog'.title = "complete") =>
           /\ master_df' = master_df
           /\ secondary_df' = secondary_df
           /\ OnlyReplaceAndTrackingDiffer(secondary_df, secondary_work')]_vars

\* C27 happens: a completed run over two rows has written the replace column and
\* the tracking fields of a row and left its target columns as loaded, and the
\* table has no column beyond the loaded ones and the tracking fields.
RunTouchesOnlyReplaceAndTrackingWitness ==
    /\ dialog.title = "complete"
    /\ Len(secondary_df.rows) = MaxRows
    /\ Len(secondary_work.rows) = MaxRows
    /\ Len(selected_target_columns) = 2
    /\ secondary_work.cols = secondary_df.cols \o TrackingColumns
    /\ \E r \in RowsOf(secondary_df) :
           /\ secondary_work.rows[r]["EmpID"] # secondary_df.rows[r]["EmpID"]
           /\ secondary_work.rows[r]["Match_Type"] # Blank
           /\ secondary_work.rows[r]["Name"] = secondary_df.rows[r]["Name"]
           /\ secondary_work.rows[r]["Alias"] = secondary_df.rows[r]["Alias"]

\* C29: after a completed structure-preserving run every target row has one
\* Match_Type, EXACT, FUZZY or REVIEW, and has incremented exactly one counter:
\* exact, fuzzy and no-match counts add up to the total, which is the number of
\* target rows.
CountersPartitionRows ==
    (dialog.title = "complete" /\ preserve_structure) =>
        /\ Len(secondary_work.rows) = Len(secondary_df.rows)
        /\ \A r \in RowsOf(secondary_work) :
               secondary_work.rows[r]["Match_Type"]
                   \in { Token("EXACT"), Token("FUZZY"), Token("REVIEW") }
        /\ stats.exact \in Nat /\ stats.fuzzy \in Nat /\ stats.no \in Nat
        /\ stats.exact + stats.fuzzy + stats.no = stats.total
        /\ stats.total = Len(secondary_df.rows)

\* C29 happens: a completed run over two rows, one matched exactly and one
\* multi-valued field whose sub-values all went unmatched: the second row is
\* REVIEW, each row is counted once, and the counters add up to 2.
CountersPartitionRowsWitness ==
    /\ dialog.title = "complete"
    /\ preserve_structure
    /\ Len(secondary_df.rows) = 2
    /\ stats.total = 2
    /\ stats.exact = 1
    /\ stats.exact + stats.fuzzy + stats.no = 2
    /\ \E r \in RowsOf(secondary_df) :
           /\ secondary_work.rows[r]["Match_Type"] = Token("REVIEW")
           /\ \E i \in Produced(ResultsOf(r)) : ResultsOf(r)[i].type = "REVIEW"

(***************************************************************************)
(* The delimiter option and the splitter: runs over one-row target tables  *)
(* whose Name holds two names separated in one of several ways, a name     *)
(* with a stray delimiter, or no name at all, under each delimiter the     *)
(* buttons can set.                                                        *)
(***************************************************************************)

\* Two names, and what may stand between them.
SeparatedValues ==
    { << "a", "b" >> \o sep \o << "c", "d" >> :
          sep \in { << " " >>, << "," >>, << ";" >>, << "|" >>, << ",", " " >>, << ";", "," >> } }

\* One name with a delimiter after it, a delimiter on its own, and one name.
UnseparatedValues == { << "a", "b", "," >>, << ";" >>, << "a", "b" >> }

\* Cells that hold no name: an empty cell, an empty string, a space, punctuation
\* only; and fields of which one part or every part is punctuation only.
KeylessValues == { NaN, Blank, << " " >>, << "!" >>,
                   << "!", ",", "a", "b" >>, << "!", ",", "!" >> }

InitDelim ==
    /\ master_df \in { RefPlain, RefBlankKey }
    /\ secondary_df \in { Frame(TargetColumns, << TargetRow(raw, Blank, << "0" >>) >>) :
                              raw \in SeparatedValues \cup UnseparatedValues \cup KeylessValues }
    /\ selected_reference_primary = "Name"
    /\ selected_data_source = "ID"
    /\ selected_target_columns = << "Name" >>
    /\ selected_replace_columns = << "EmpID" >>
    /\ fuzzy_matching \in BOOLEAN
    /\ similarity_threshold \in (IF fuzzy_matching THEN RunThresholds ELSE { 8 })
    /\ enable_multivalue \in BOOLEAN
    /\ target_delimiter = ","
    /\ preserve_structure = TRUE
    /\ secondary_work = NoFrame
    /\ undo_col_data = NoSeries
    /\ undo_col_name = NoName
    /\ stats = NoStats
    /\ dialog = NoDialog
    /\ run_completed = FALSE
    /\ hist = ""
    /\ before = NoFrame

NextDelim == set_target_delimiter \/ process_data

SpecDelim == InitDelim /\ [][NextDelim]_vars

\* The parts the configured delimiter separates the value into.
ConfiguredParts(value) ==
    IF value = NaN THEN << >> ELSE StripNonEmpty(SplitOn(value, target_delimiter))

\* The row was reconciled as a multi-valued field of n sub-values.
ReconciledAsMultiValue(r, n) ==
    /\ Len(secondary_work.rows[r]["Matched_Reference_Name"]) = 5
    /\ secondary_work.rows[r]["Matched_Reference_Name"][1] = "Multi-value: "
    /\ secondary_work.rows[r]["Matched_Reference_Name"][4] = ToString(n)

\* C19: a delimiter chosen in the configuration, the space included, is one the
\* run detects: after a completed run with multi-value processing on, a field that
\* the configured delimiter separates into two or more non-empty parts has been
\* reconciled as a multi-valued field of that many sub-values.
ConfiguredDelimiterIsDetected ==
    (dialog.title = "complete" /\ enable_multivalue) =>
        \A r \in RowsOf(secondary_df) :
            \A parts \in { ConfiguredParts(secondary_df.rows[r]["Name"]) } :
                Len(parts) > 1 => ReconciledAsMultiValue(r, Len(parts))

(***************************************************************************)
(* Claims about the splitter, checked on the runs of SpecDelim.            *)
(***************************************************************************)

\* The candidate the splitter should use for the value: the first, in the order
\* comma, semicolon, pipe, that occurs anywhere in it, or "" when none does.
PriorityDelimiter(value) ==
    IF value = NaN THEN ""
    ELSE IF "," \in Range(value) THEN ","
    ELSE IF ";" \in Range(value) THEN ";"
    ELSE IF "|" \in Range(value) THEN "|" ELSE ""

\* The parts of the value: split on that delimiter, trimmed, the empty ones dropped.
PriorityParts(value) ==
    IF PriorityDelimiter(value) = "" THEN << >>
    ELSE StripNonEmpty(SplitOn(value, PriorityDelimiter(value)))

\* Row r was reconciled from value taken whole, as one single value: its match
\* is recorded and written, or the row is left for review.
ReconciledAsSingleValue(r, value, m) ==
    IF m = NoMatch
    THEN /\ secondary_work.rows[r]["Match_Type"] = Token("REVIEW")
         /\ secondary_work.rows[r]["Matched_Reference_Name"] = Blank
         /\ secondary_work.rows[r]["EmpID"] = secondary_df.rows[r]["EmpID"]
    ELSE /\ secondary_work.rows[r]["Match_Type"] = Token(m.type)
         /\ secondary_work.rows[r]["Matched_Reference_Name"] = m.matched_name
         /\ secondary_work.rows[r]["EmpID"] = m.data_value

\* C21: with multi-value processing on, a completed run has split each field on
\* the first of comma, semicolon, pipe that occurs anywhere in it, not on the one
\* that occurs earliest: a field of two or more trimmed non-empty parts is
\* reconciled part by part and joined with that delimiter, and a field with no
\* delimiter or with fewer than two parts is matched once, whole.
SplitterUsesFirstCandidate ==
    (dialog.title = "complete" /\ enable_multivalue) =>
        \A r \in RowsOf(secondary_df) :
            \A value \in { secondary_df.rows[r]["Name"] } :
                \A parts \in { PriorityParts(value) } :
                    IF Len(parts) >= 2
                    THEN /\ ReconciledAsMultiValue(r, Len(parts))
                         /\ secondary_work.rows[r]["EmpID"]
                                = JoinWith(ExpectedPieces(parts), PriorityDelimiter(value))
                    ELSE ReconciledAsSingleValue(
                             r, value, SingleValueMatch(value, "Name", master_df, Config))

\* C21 happens: "ab;,cd", in which the semicolon comes first, has been split on
\* the comma into "ab;" and "cd", and its results are joined with the comma.
SplitterUsesFirstCandidateWitness ==
    /\ dialog.title = "complete"
    /\ enable_multivalue
    /\ secondary_df.rows[1]["Name"] = << "a", "b", ";", ",", "c", "d" >>
    /\ ReconciledAsMultiValue(1, 2)
    /\ secondary_work.rows[1]["EmpID"] = << "1", ",", "2" >>

(***************************************************************************)
(* Claims about cells without a key, checked on the runs of SpecDelim.     *)
(***************************************************************************)

\* The cell is missing, blank or whitespace only, or its normalized key is empty.
Keyless(value) ==
    value = NaN \/ Strip(value) = << >> \/ clean_name(value) = << >>

\* The run takes the field apart: multi-value processing is on and the field has
\* two or more parts.
SplitInRun(value) == enable_multivalue /\ Len(PriorityParts(value)) >= 2

\* Row r, with its one target column, has no MatchResult: it is left for review,
\* its other tracking fields blank and its replace column as loaded.
RowWithoutResult(r) ==
    /\ secondary_work.rows[r]["Match_Type"] = Token("REVIEW")
    /\ secondary_work.rows[r]["Matched_Reference_Name"] = Blank
    /\ secondary_work.rows[r]["Confidence"] = Blank
    /\ secondary_work.rows[r]["Matched_Column"] = Blank
    /\ secondary_work.rows[r]["EmpID"] = secondary_df.rows[r]["EmpID"]

\* The pieces of the joined cell of row r that stand for the parts without a key
\* are the sentinel.
KeylessPartsUnfound(r, parts, delimiter) ==
    \A pieces \in { SplitOn(secondary_work.rows[r]["EmpID"], delimiter) } :
        /\ Len(pieces) = Len(parts)
        /\ \A j \in 1..Len(parts) : clean_name(parts[j]) = << >> => pieces[j] = MatchUnfound

\* After a completed run: a keyless cell (every one of them, or only those the run
\* does not take apart) has left its column without a MatchResult, and a keyless
\* sub-value of a field the run takes apart shows as the sentinel.
KeylessCells(split_too) ==
    dialog.title = "complete" =>
        \A r \in RowsOf(secondary_df) :
            \A value \in { secondary_df.rows[r]["Name"] } :
                /\ (Keyless(value) /\ (split_too \/ ~SplitInRun(value)))
                       => RowWithoutResult(r)
                /\ SplitInRun(value)
                       => KeylessPartsUnfound(r, PriorityParts(value), PriorityDelimiter(value))

\* C22, as far as it holds: a target cell that is missing, blank or whitespace
\* only, or whose normalized key is empty and which the run does not take apart
\* into two or more sub-values, yields no MatchResult for its column, and a
\* sub-value whose normalized key is empty yields 'match unfound', whatever the
\* reference table, one with a row of empty key included.
KeylessCellNeverMatches == KeylessCells(FALSE)

\* C22 as stated: every cell whose normalized key is empty yields no MatchResult
\* for its column.
AnyKeylessCellNeverMatches == KeylessCells(TRUE)

\* C22 happens: the cell "!" has an empty key, the reference table has a row whose
\* key is empty too, and the run has left the row for review.
KeylessCellNeverMatchesWitness ==
    /\ dialog.title = "complete"
    /\ master_df = RefBlankKey
    /\ secondary_df.rows[1]["Name"] = << "!" >>
    /\ clean_name(master_df.rows[1]["Name"]) = clean_name(secondary_df.rows[1]["Name"])
    /\ RowWithoutResult(1)

(***************************************************************************)
(* The column selection on its own: both files loaded, and the handlers     *)
(* of the mapping panel with every column the comboboxes offer.            *)
(***************************************************************************)

InitSelect ==
    /\ master_df = RefPlain
    /\ secondary_df = CycledTarget(MaxRows)
    /\ selected_reference_primary = ""
    /\ selected_data_source = ""
    /\ selected_target_columns = << >>
    /\ selected_replace_columns = << >>
    /\ fuzzy_matching = TRUE
    /\ similarity_threshold = 8
    /\ enable_multivalue = FALSE
    /\ target_delimiter = ","
    /\ preserve_structure = TRUE
    /\ secondary_work = NoFrame
    /\ undo_col_data = NoSeries
    /\ undo_col_name = NoName
    /\ stats = NoStats
    /\ dialog = NoDialog
    /\ run_completed = FALSE
    /\ hist = ""
    /\ before = NoFrame

\* The target primary combobox, whose values are the columns of the target file.
select_target_primary ==
    \E selected \in Columns(secondary_df) : target_primary_selected(selected)

\* The additional target combobox and its Add button.
select_target_additional ==
    \E selected \in Columns(secondary_df) : target_column_added(selected)

\* The replace combobox and its Add button.
select_replace ==
    \E selected \in Columns(secondary_df) : replace_column_added(selected)

NextSelect ==
    \/ on_reference_primary_selected
    \/ on_data_source_selected
    \/ select_target_primary
    \/ select_target_additional
    \/ select_replace
    \/ remove_target_from_listbox
    \/ remove_replace_from_listbox
    \/ clear_all_selections

SpecSelect == InitSelect /\ [][NextSelect]_vars

\* C26: position 0 of the target column list is the primary: whatever selections
\* were made, added, removed or cleared before, selecting a column as target
\* primary leaves that column at position 0 of the list.
SelectedPrimaryIsFirst ==
    \A selected \in Columns(secondary_df) :
        Head(on_target_primary_selected_result(selected_target_columns, selected)) = selected

(***************************************************************************)
(* The confidence a run records: runs over one-row target tables at every  *)
(* position of the similarity threshold spinbox.                           *)
(***************************************************************************)

\* The positions of the spinbox, 0.1 to 1.0 by 0.1, in tenths.
SpinboxThresholds == 1..10

\* Names that match exactly, fuzzily, as multi-valued fields, or not at all.
ConfidenceNames ==
    { << "A", "b", " " >>, << "a", "b", "d" >>, << "a", "b", "a" >>, << "d" >>,
      << "a", "b", ",", "d" >>, << "d", ";", "d" >> }

InitConfidence ==
    /\ master_df \in { RefPlain, RefAsymmetric }
    /\ secondary_df \in { Frame(TargetColumns, << TargetRow(raw, Blank, << "0" >>) >>) :
                              raw \in ConfidenceNames }
    /\ selected_reference_primary = "Name"
    /\ selected_data_source = "ID"
    /\ selected_target_columns = << "Name" >>
    /\ selected_replace_columns = << "EmpID" >>
    /\ fuzzy_matching = TRUE
    /\ similarity_threshold \in SpinboxThresholds
    /\ enable_multivalue \in BOOLEAN
    /\ target_delimiter = ","
    /\ preserve_structure = TRUE
    /\ secondary_work = NoFrame
    /\ undo_col_data = NoSeries
    /\ undo_col_name = NoName
    /\ stats = NoStats
    /\ dialog = NoDialog
    /\ run_completed = FALSE
    /\ hist = ""
    /\ before = NoFrame

NextConfidence == process_data

SpecConfidence == InitConfidence /\ [][NextConfidence]_vars

\* The Confidence cell of row r holds a value, in thousandths, from lo to hi.
ConfidenceBetween(r, lo, hi) ==
    \E n \in lo..hi : secondary_work.rows[r]["Confidence"] = Token(ToString(n))

\* C30: after a completed run, a row of Match_Type EXACT has Confidence 1.0, and
\* a row of Match_Type FUZZY has a Confidence of at least the similarity threshold
\* and below 1.0, at every threshold from 0.1 to 1.0, with multi-value processing
\* on or off.
ConfidenceMatchesType ==
    dialog.title = "complete" =>
        \A r \in RowsOf(secondary_work) :
            /\ secondary_work.rows[r]["Match_Type"] = Token("EXACT")
                   => ConfidenceBetween(r, 1000, 1000)
            /\ secondary_work.rows[r]["Match_Type"] = Token("FUZZY")
                   => ConfidenceBetween(r, 100 * similarity_threshold, 999)

====
